---- MODULE Spec2Model ----
(***************************************************************************)
(* Model of the scheduled reminder pipeline of server/utils/cron.js:       *)
(* the due-date rule table, the frequency classifier, the due-date         *)
(* matcher, the GST reminder dispatcher and the compliance reminder job,   *)
(* over the Users / Vendors / Notifications tables of the database.        *)
(***************************************************************************)
EXTENDS Integers, Naturals, Sequences, FiniteSets, TLC

VARIABLES
    ruleTable,      \* the module-level object GST_DUE_DATES
    arg,            \* arguments of a direct call of a pure function
    ret,            \* what that call returned
    Users,          \* table Users: rows [user_id, role]
    Vendors,        \* table Vendors: rows [vendor_id, user_id, turnover_range, compliance_status]
    Notifications,  \* table Notifications, in insertion (notif_id) order
    mailbox,        \* every call of sendGSTReminder so far, with its outcome
    runs,           \* one record per invocation of a job
    ActivityLogs,   \* table ActivityLogs: rows [log_id, timestamp]
    called,         \* per invocation: who entered the job, and which entry point
    clock,          \* the instant (minutes) and the host's timezone
    tasks,          \* the tasks registered with cron.schedule
    fired,          \* the tasks whose callback the scheduler ran at this instant
    http,           \* the last HTTP request and what the server did with it
    Cases,          \* table Cases: rows [case_id, vendor_id, ca_id]
    NewsUpdates     \* table NewsUpdates: rows [update_id, posted_by, is_approved]

vars == <<ruleTable, arg, ret, Users, Vendors, Notifications, mailbox, runs,
          ActivityLogs, called, clock, tasks, fired, http, Cases, NewsUpdates>>

pureVars == <<arg, ret>>
jobVars == <<Users, Vendors, Notifications, mailbox, runs, ActivityLogs, called>>
schedVars == <<clock, tasks, fired>>
webVars == <<http, Cases, NewsUpdates>>

\* No request has been served, no case opened, no news posted.
NoExchange == [route |-> "none", status |-> 0]

WebIdle == http = NoExchange /\ Cases = <<>> /\ NewsUpdates = <<>>

\* ------------------------------------------------------------------------
\* Bounds of the model
\* ------------------------------------------------------------------------
MaxVendors == 3

\* ------------------------------------------------------------------------
\* The due-date rule table
\* ------------------------------------------------------------------------
\* A rule's month field is null, an array of months or one month.
MonthNull == [kind |-> "null", list |-> <<>>, value |-> 0]
MonthArray(l) == [kind |-> "array", list |-> l, value |-> 0]
MonthValue(m) == [kind |-> "value", list |-> <<>>, value |-> m]

\* A mutant: both monthly returns are due on the 20th.
GST_DUE_DATES_SameDay ==
    [monthly |-> <<
        [day |-> 20, month |-> MonthNull, description |-> "Monthly GST Return (GSTR-1)"],
        [day |-> 20, month |-> MonthNull, description |-> "Monthly GST Return (GSTR-3B)"] >>,
     quarterly |-> <<
        [day |-> 18, month |-> MonthArray(<<1, 4, 7, 10>>), description |-> "Quarterly GST Return (GSTR-1)"],
        [day |-> 22, month |-> MonthArray(<<1, 4, 7, 10>>), description |-> "Quarterly GST Return (GSTR-3B)"] >>,
     annual |-> <<
        [day |-> 31, month |-> MonthValue(12), description |-> "Annual GST Return (GSTR-9)"] >>]

GST_DUE_DATES ==
    [monthly |-> <<
        [day |-> 20, month |-> MonthNull, description |-> "Monthly GST Return (GSTR-1)"],
        [day |-> 11, month |-> MonthNull, description |-> "Monthly GST Return (GSTR-3B)"] >>,
     quarterly |-> <<
        [day |-> 18, month |-> MonthArray(<<1, 4, 7, 10>>), description |-> "Quarterly GST Return (GSTR-1)"],
        [day |-> 22, month |-> MonthArray(<<1, 4, 7, 10>>), description |-> "Quarterly GST Return (GSTR-3B)"] >>,
     annual |-> <<
        [day |-> 31, month |-> MonthValue(12), description |-> "Annual GST Return (GSTR-9)"] >>]

\* ------------------------------------------------------------------------
\* Frequency classifier
\* ------------------------------------------------------------------------
\* A mutant: the '10-40L' bracket falls through to the default.
getGSTFilingFrequency_SmallOnly(turnoverRange) ==
    CASE turnoverRange = "<10L" -> "quarterly"
      [] turnoverRange = "40L-1Cr" -> "monthly"
      [] turnoverRange = ">1Cr" -> "monthly"
      [] OTHER -> "monthly"

\* A mutant: an unlisted bracket is classified annual.
getGSTFilingFrequency_Annual(turnoverRange) ==
    CASE turnoverRange = "<10L" -> "quarterly"
      [] turnoverRange = "10-40L" -> "quarterly"
      [] turnoverRange = "40L-1Cr" -> "monthly"
      [] turnoverRange = ">1Cr" -> "monthly"
      [] OTHER -> "annual"

getGSTFilingFrequency(turnoverRange) ==
    CASE turnoverRange = "<10L" -> "quarterly"
      [] turnoverRange = "10-40L" -> "quarterly"
      [] turnoverRange = "40L-1Cr" -> "monthly"
      [] turnoverRange = ">1Cr" -> "monthly"
      [] OTHER -> "monthly"

\* ------------------------------------------------------------------------
\* Due-date matcher
\* ------------------------------------------------------------------------
\* Array.prototype.includes on an array of months.
Includes(list, x) == \E k \in 1..Len(list) : list[k] = x

\* A Date is modelled by what the matcher reads of it: getDate() in 1..31
\* and getMonth() in 0..11.
getDate(today) == today.date
getMonth(today) == today.month

\* A mutant: a null month is not told apart from a month that differs.
DueDateMatches_NoNull(dueDate, currentDay, currentMonth) ==
    IF dueDate.day # currentDay THEN FALSE
    ELSE IF dueDate.month.kind = "array" THEN Includes(dueDate.month.list, currentMonth)
    ELSE dueDate.month.kind = "value" /\ dueDate.month.value = currentMonth

\* A mutant: a single month is compared loosely and always fits.
DueDateMatches_AnyMonth(dueDate, currentDay, currentMonth) ==
    IF dueDate.day # currentDay THEN FALSE
    ELSE IF dueDate.month.kind = "null" THEN TRUE
    ELSE IF dueDate.month.kind = "array" THEN Includes(dueDate.month.list, currentMonth)
    ELSE TRUE

\* The callback of dueDates.filter.
DueDateMatches(dueDate, currentDay, currentMonth) ==
    IF dueDate.day # currentDay THEN FALSE
    ELSE IF dueDate.month.kind = "null" THEN TRUE
    ELSE IF dueDate.month.kind = "array" THEN Includes(dueDate.month.list, currentMonth)
    ELSE dueDate.month.value = currentMonth

\* A mutant: the month index is used as it comes from getMonth().
getMatchingDueDates_ZeroIndexed(today, frequency) ==
    LET currentDay == getDate(today)
        currentMonth == getMonth(today)
        dueDates == IF frequency \in DOMAIN ruleTable THEN ruleTable[frequency] ELSE <<>>
    IN  SelectSeq(dueDates, LAMBDA dueDate : DueDateMatches(dueDate, currentDay, currentMonth))

\* A mutant: only the day of the month is compared.
getMatchingDueDates_DayOnly(today, frequency) ==
    LET currentDay == getDate(today)
        dueDates == IF frequency \in DOMAIN ruleTable THEN ruleTable[frequency] ELSE <<>>
    IN  SelectSeq(dueDates, LAMBDA dueDate : dueDate.day = currentDay)

getMatchingDueDates(today, frequency) ==
    LET currentDay == getDate(today)
        currentMonth == getMonth(today) + 1
        dueDates == IF frequency \in DOMAIN ruleTable THEN ruleTable[frequency] ELSE <<>>
    IN  SelectSeq(dueDates, LAMBDA dueDate : DueDateMatches(dueDate, currentDay, currentMonth))

\* ------------------------------------------------------------------------
\* Direct calls of the two pure functions
\* ------------------------------------------------------------------------
\* Turnover labels: the four recognised brackets, two unrecognised strings
\* and the missing value.
TurnoverInputs == {"<10L", "10-40L", "40L-1Cr", ">1Cr", "5Cr+", "", "undefined"}
Frequencies == {"monthly", "quarterly", "annual", "weekly"}
Dates == [date : 1..31, month : 0..11]

NoDate == [date |-> 0, month |-> 0]
NoReturn == [fn |-> "none", frequency |-> "none", matches |-> <<>>]

CallClassify ==
    /\ ret' = [fn |-> "getGSTFilingFrequency",
               frequency |-> getGSTFilingFrequency(arg.turnoverRange),
               matches |-> <<>>]
    /\ UNCHANGED <<ruleTable, webVars, arg, jobVars, schedVars>>

CallMatch ==
    /\ ret' = [fn |-> "getMatchingDueDates",
               frequency |-> "none",
               matches |-> getMatchingDueDates(arg.today, arg.frequency)]
    /\ UNCHANGED <<ruleTable, webVars, arg, jobVars, schedVars>>

\* ------------------------------------------------------------------------
\* The database and the job invocations
\* ------------------------------------------------------------------------
\* A job is entered from the scheduler callback or from its manual trigger.
RunIds == {"scheduled", "manual"}

\* Values the job runs draw from.
JobTurnover == {"<10L", "10-40L", "40L-1Cr", ">1Cr", "5Cr+"}
JobStatus == {"pending", "compliant"}
JobDates == {[date |-> 20, month |-> 2], [date |-> 11, month |-> 0],
             [date |-> 18, month |-> 3], [date |-> 18, month |-> 4],
             [date |-> 31, month |-> 11]}

Undefined == [defined |-> FALSE, value |-> 0]

IdleRun ==
    [job |-> "none", pc |-> "idle", today |-> NoDate, vendors |-> <<>>, i |-> 0,
     matchingDueDates |-> <<>>, j |-> 0, remindersSent |-> 0,
     queries |-> 0, errors |-> <<>>, outcome |-> "none", returned |-> Undefined,
     rejected |-> FALSE, changes |-> 0, before |-> <<>>, at |-> 0]

\* SELECT v.* FROM Vendors v JOIN Users u ON v.user_id = u.user_id
\* WHERE u.role = 'vendor'
HasVendorUser(v) ==
    \E k \in 1..Len(Users) : Users[k].user_id = v.user_id /\ Users[k].role = "vendor"

VendorQuery == SelectSeq(Vendors, HasVendorUser)

\* A mutant: the status is not part of the WHERE clause.
IsPendingVendor_AnyStatus(v) == HasVendorUser(v)

\* ... WHERE v.compliance_status = 'pending' AND u.role = 'vendor'
IsPendingVendor(v) == v.compliance_status = "pending" /\ HasVendorUser(v)

PendingVendorQuery == SelectSeq(Vendors, IsPendingVendor)

\* What the loop body computes for the vendor at position k before its if.
MatchesOf(run, k) ==
    getMatchingDueDates(run.today, getGSTFilingFrequency(run.vendors[k].turnover_range))

\* A mutant: a vendor who already has a row for the rule of today is
\* skipped.
GSTLoopFrom_SkipsReminded(run, k) ==
    LET reminded(x) ==
            \E n \in 1..Len(Notifications) :
                /\ Notifications[n].user_id = run.vendors[x].user_id
                /\ Notifications[n].message =
                       <<"Reminder: ", MatchesOf(run, x)[1].description, " is due today">>
        hits == {x \in k..Len(run.vendors) : Len(MatchesOf(run, x)) > 0 /\ ~reminded(x)}
    IN  IF hits = {}
        THEN [run EXCEPT !.pc = "done", !.outcome = "completed", !.returned = Undefined,
                         !.i = Len(run.vendors) + 1, !.matchingDueDates = <<>>, !.j = 0]
        ELSE LET x == CHOOSE x \in hits : \A y \in hits : x <= y
             IN  [run EXCEPT !.pc = "send", !.i = x,
                             !.matchingDueDates = MatchesOf(run, x), !.j = 1]

\* A mutant: a circuit breaker, the loop is left once an error was logged.
GSTLoopFrom_Breaks(run, k) ==
    LET hits == {x \in k..Len(run.vendors) : Len(MatchesOf(run, x)) > 0}
    IN  IF hits = {} \/ run.errors # <<>>
        THEN [run EXCEPT !.pc = "done", !.outcome = "completed", !.returned = Undefined,
                         !.i = k, !.matchingDueDates = <<>>, !.j = 0]
        ELSE LET x == CHOOSE x \in hits : \A y \in hits : x <= y
             IN  [run EXCEPT !.pc = "send", !.i = x,
                             !.matchingDueDates = MatchesOf(run, x), !.j = 1]

\* The synchronous part of the for loop over vendors, entered at position k:
\* it runs to the next await (the send for the next vendor with a match) or
\* to the end of the function (the completion log; no return statement).
GSTLoopFrom(run, k) ==
    LET hits == {x \in k..Len(run.vendors) : Len(MatchesOf(run, x)) > 0}
    IN  IF hits = {}
        THEN [run EXCEPT !.pc = "done", !.outcome = "completed", !.returned = Undefined,
                         !.i = Len(run.vendors) + 1, !.matchingDueDates = <<>>, !.j = 0]
        ELSE LET x == CHOOSE x \in hits : \A y \in hits : x <= y
             IN  [run EXCEPT !.pc = "send", !.i = x,
                             !.matchingDueDates = MatchesOf(run, x), !.j = 1]

\* A line of console.error: where the error was caught and for whom.
ErrorAt(at, user_id, description) ==
    [at |-> at, user_id |-> user_id, description |-> description]

\* The catch inside the loop of sendGSTReminders logs the error.
VendorError(run, at) ==
    [run EXCEPT !.errors = Append(@, ErrorAt(at, run.vendors[run.i].user_id,
                                             run.matchingDueDates[run.j].description))]

\* A mutant: the outer catch logs the error and throws it again.
JobFails_Rethrows(run) ==
    [run EXCEPT !.pc = "done", !.outcome = "failed", !.rejected = TRUE,
                !.errors = Append(@, ErrorAt("query", 0, ""))]

\* The outer catch of a job: the error is logged, the function ends.
JobFails(run) ==
    [run EXCEPT !.pc = "done", !.outcome = "failed", !.returned = Undefined,
                !.errors = Append(@, ErrorAt("query", 0, ""))]

\* sendGSTReminders is entered: today is read and the vendor query issued.
\* Who entered it is for the entry point to record.
StartGST(r) ==
    /\ runs[r].pc = "idle"
    /\ \E d \in JobDates :
          runs' = [runs EXCEPT ![r] = [@ EXCEPT !.job = "gst", !.pc = "query", !.today = d,
                                                 !.queries = @ + 1]]
    /\ UNCHANGED <<ruleTable, webVars, pureVars, ActivityLogs, Users, Vendors, Notifications, mailbox>>

\* A mutant: the failed query is issued again.
GSTQueryFails_Retry(r) ==
    /\ runs[r].job = "gst" /\ runs[r].pc = "query"
    /\ runs[r].queries < 2
    /\ runs' = [runs EXCEPT ![r] = [@ EXCEPT !.queries = @ + 1,
                                             !.errors = Append(@, ErrorAt("query", 0, ""))]]
    /\ UNCHANGED <<ruleTable, webVars, pureVars, ActivityLogs, called, schedVars, Users, Vendors, Notifications, mailbox>>

\* db.all calls back with an error.
GSTQueryFails(r) ==
    /\ runs[r].job = "gst" /\ runs[r].pc = "query"
    /\ runs' = [runs EXCEPT ![r] = JobFails(@)]
    /\ UNCHANGED <<ruleTable, webVars, pureVars, ActivityLogs, called, schedVars, Users, Vendors, Notifications, mailbox>>

\* db.all calls back with the rows.
GSTQueryReturns(r) ==
    /\ runs[r].job = "gst" /\ runs[r].pc = "query"
    /\ runs' = [runs EXCEPT ![r] =
                  GSTLoopFrom([@ EXCEPT !.vendors = VendorQuery, !.remindersSent = 0], 1)]
    /\ UNCHANGED <<ruleTable, webVars, pureVars, ActivityLogs, called, schedVars, Users, Vendors, Notifications, mailbox>>

CurrentVendor(run) == run.vendors[run.i]
CurrentDueDate(run) == run.matchingDueDates[run.j]

Mail(r, delivered) ==
    [run |-> r, user_id |-> CurrentVendor(runs[r]).user_id,
     description |-> CurrentDueDate(runs[r]).description, delivered |-> delivered]

\* A mutant: no catch inside the loop, the rejection reaches the outer catch.
SendFails_Aborts(r) ==
    /\ runs[r].job = "gst" /\ runs[r].pc = "send"
    /\ mailbox' = Append(mailbox, Mail(r, FALSE))
    /\ runs' = [runs EXCEPT ![r] = [VendorError(@, "send") EXCEPT !.pc = "done",
                                                                  !.outcome = "failed"]]
    /\ UNCHANGED <<ruleTable, webVars, pureVars, ActivityLogs, called, schedVars, Users, Vendors, Notifications>>

\* A mutant: the catch wraps the send alone, the insert follows anyway.
SendFails_GoesOn(r) ==
    /\ runs[r].job = "gst" /\ runs[r].pc = "send"
    /\ mailbox' = Append(mailbox, Mail(r, FALSE))
    /\ runs' = [runs EXCEPT ![r] = [VendorError(@, "send") EXCEPT !.pc = "insert"]]
    /\ UNCHANGED <<ruleTable, webVars, pureVars, ActivityLogs, called, schedVars, Users, Vendors, Notifications>>

\* The promise of sendGSTReminder rejects: the per-vendor catch logs it and
\* the loop goes on with the next vendor.
SendFails(r) ==
    /\ runs[r].job = "gst" /\ runs[r].pc = "send"
    /\ mailbox' = Append(mailbox, Mail(r, FALSE))
    /\ runs' = [runs EXCEPT ![r] = GSTLoopFrom(VendorError(@, "send"), @.i + 1)]
    /\ UNCHANGED <<ruleTable, webVars, pureVars, ActivityLogs, called, schedVars, Users, Vendors, Notifications>>

\* A mutant: the INSERT is issued without await, the loop goes on to the
\* next vendor while it is outstanding.
SendSucceeds_NoAwait(r) ==
    /\ runs[r].job = "gst" /\ runs[r].pc = "send"
    /\ mailbox' = Append(mailbox, Mail(r, TRUE))
    /\ runs' = [runs EXCEPT ![r] = GSTLoopFrom(@, @.i + 1)]
    /\ UNCHANGED <<ruleTable, webVars, pureVars, ActivityLogs, called, schedVars, Users, Vendors, Notifications>>

\* The promise of sendGSTReminder resolves: the insert is issued.
SendSucceeds(r) ==
    /\ runs[r].job = "gst" /\ runs[r].pc = "send"
    /\ mailbox' = Append(mailbox, Mail(r, TRUE))
    /\ runs' = [runs EXCEPT ![r] = [@ EXCEPT !.pc = "insert"]]
    /\ UNCHANGED <<ruleTable, webVars, pureVars, ActivityLogs, called, schedVars, Users, Vendors, Notifications>>

\* db.run of an INSERT INTO Notifications. A mutant first: an upsert that
\* replaces the row the user already has.
InsertNotification_Upsert(table, row) ==
    IF \E k \in 1..Len(table) : table[k].user_id = row.user_id
    THEN LET k == CHOOSE k \in 1..Len(table) : table[k].user_id = row.user_id
         IN  [table EXCEPT ![k] = [row EXCEPT !.notif_id = k]]
    ELSE Append(table, row)

InsertNotification(table, row) == Append(table, row)

\* The row of the INSERT of sendGSTReminders; by is the invocation that
\* wrote it (not a column).
GSTNotification(r) ==
    [notif_id |-> Len(Notifications) + 1,
     user_id |-> CurrentVendor(runs[r]).user_id,
     title |-> "GST Filing Reminder",
     message |-> <<"Reminder: ", CurrentDueDate(runs[r]).description, " is due today">>,
     type |-> "warning", channel |-> "email", is_read |-> FALSE, by |-> r]

\* A mutant: the counter is not incremented.
AfterGSTInsert_NoCount(run) ==
    IF run.j < Len(run.matchingDueDates)
    THEN [run EXCEPT !.j = @ + 1, !.pc = "send"]
    ELSE GSTLoopFrom(run, run.i + 1)

\* After a row is written: the counter, then the next due date of the same
\* vendor or the next vendor.
AfterGSTInsert(run) ==
    LET counted == [run EXCEPT !.remindersSent = @ + 1]
    IN  IF run.j < Len(run.matchingDueDates)
        THEN [counted EXCEPT !.j = @ + 1, !.pc = "send"]
        ELSE GSTLoopFrom(counted, run.i + 1)

\* A mutant: the insert is outside the try of the loop body.
GSTInsertFails_Aborts(r) ==
    /\ runs[r].job = "gst" /\ runs[r].pc = "insert"
    /\ runs' = [runs EXCEPT ![r] = [VendorError(@, "insert") EXCEPT !.pc = "done",
                                                                    !.outcome = "failed"]]
    /\ UNCHANGED <<ruleTable, webVars, pureVars, ActivityLogs, called, schedVars, Users, Vendors, Notifications, mailbox>>

\* db.run calls back with an error: the same per-vendor catch.
GSTInsertFails(r) ==
    /\ runs[r].job = "gst" /\ runs[r].pc = "insert"
    /\ runs' = [runs EXCEPT ![r] = GSTLoopFrom(VendorError(@, "insert"), @.i + 1)]
    /\ UNCHANGED <<ruleTable, webVars, pureVars, ActivityLogs, called, schedVars, Users, Vendors, Notifications, mailbox>>

GSTInsertSucceeds(r) ==
    /\ runs[r].job = "gst" /\ runs[r].pc = "insert"
    /\ Notifications' = InsertNotification(Notifications, GSTNotification(r))
    /\ runs' = [runs EXCEPT ![r] = AfterGSTInsert(@)]
    /\ UNCHANGED <<ruleTable, webVars, pureVars, ActivityLogs, called, schedVars, Users, Vendors, mailbox>>

\* ------------------------------------------------------------------------
\* Compliance reminder job
\* ------------------------------------------------------------------------
\* The for loop over pendingVendors, entered at position k: the next insert
\* is issued, or the function ends.
ComplianceLoopFrom(run, k) ==
    IF k > Len(run.vendors)
    THEN [run EXCEPT !.pc = "done", !.outcome = "completed", !.returned = Undefined, !.i = k]
    ELSE [run EXCEPT !.pc = "insert", !.i = k]

StartCompliance(r) ==
    /\ runs[r].pc = "idle"
    /\ runs' = [runs EXCEPT ![r] = [@ EXCEPT !.job = "compliance", !.pc = "query",
                                              !.queries = @ + 1]]
    /\ UNCHANGED <<ruleTable, webVars, pureVars, ActivityLogs, Users, Vendors, Notifications, mailbox>>

ComplianceQueryFails(r) ==
    /\ runs[r].job = "compliance" /\ runs[r].pc = "query"
    /\ runs' = [runs EXCEPT ![r] = JobFails(@)]
    /\ UNCHANGED <<ruleTable, webVars, pureVars, ActivityLogs, called, schedVars, Users, Vendors, Notifications, mailbox>>

ComplianceQueryReturns(r) ==
    /\ runs[r].job = "compliance" /\ runs[r].pc = "query"
    /\ runs' = [runs EXCEPT ![r] =
                  ComplianceLoopFrom([@ EXCEPT !.vendors = PendingVendorQuery,
                                               !.remindersSent = 0], 1)]
    /\ UNCHANGED <<ruleTable, webVars, pureVars, ActivityLogs, called, schedVars, Users, Vendors, Notifications, mailbox>>

\* The row of the INSERT of sendComplianceReminders: the channel column is
\* not given and takes the table's default.
ComplianceNotification(r) ==
    [notif_id |-> Len(Notifications) + 1,
     user_id |-> CurrentVendor(runs[r]).user_id,
     title |-> "Compliance Status Pending",
     message |-> <<"Please complete your compliance requirements. Contact your assigned CA for assistance.">>,
     type |-> "warning", channel |-> "in-app", is_read |-> FALSE, by |-> r]

\* A mutant: no catch inside the loop, the rejection reaches the outer catch.
ComplianceInsertFails_Aborts(r) ==
    /\ runs[r].job = "compliance" /\ runs[r].pc = "insert"
    /\ runs' = [runs EXCEPT ![r] =
                  [@ EXCEPT !.errors = Append(@, ErrorAt("insert", CurrentVendor(runs[r]).user_id, "")),
                            !.pc = "done", !.outcome = "failed"]]
    /\ UNCHANGED <<ruleTable, webVars, pureVars, ActivityLogs, called, schedVars, Users, Vendors, Notifications, mailbox>>

ComplianceInsertFails(r) ==
    /\ runs[r].job = "compliance" /\ runs[r].pc = "insert"
    /\ runs' = [runs EXCEPT ![r] =
                  ComplianceLoopFrom([@ EXCEPT !.errors = Append(@,
                        ErrorAt("insert", CurrentVendor(runs[r]).user_id, ""))], @.i + 1)]
    /\ UNCHANGED <<ruleTable, webVars, pureVars, ActivityLogs, called, schedVars, Users, Vendors, Notifications, mailbox>>

ComplianceInsertSucceeds(r) ==
    /\ runs[r].job = "compliance" /\ runs[r].pc = "insert"
    /\ Notifications' = InsertNotification(Notifications, ComplianceNotification(r))
    /\ runs' = [runs EXCEPT ![r] =
                  ComplianceLoopFrom([@ EXCEPT !.remindersSent = @ + 1], @.i + 1)]
    /\ UNCHANGED <<ruleTable, webVars, pureVars, ActivityLogs, called, schedVars, Users, Vendors, mailbox>>

\* ------------------------------------------------------------------------
\* Log retention job
\* ------------------------------------------------------------------------
\* The retention window of the DELETE, in days, and in the minutes the clock
\* counts.
RetentionDays == 90
Retention == RetentionDays * 24 * 60

\* cleanupOldLogs is entered: the DELETE is issued.
StartCleanup(r) ==
    /\ runs[r].pc = "idle"
    /\ runs' = [runs EXCEPT ![r] = [@ EXCEPT !.job = "cleanup", !.pc = "delete",
                                             !.queries = @ + 1]]
    /\ UNCHANGED <<ruleTable, webVars, pureVars, ActivityLogs, Users, Vendors, Notifications, mailbox>>

\* A mutant: the error of the DELETE leaves the job as a rejection.
CleanupDeleteFails_Propagates(r) ==
    /\ runs[r].job = "cleanup" /\ runs[r].pc = "delete"
    /\ runs' = [runs EXCEPT ![r] =
                  [@ EXCEPT !.pc = "done", !.outcome = "failed", !.rejected = TRUE,
                            !.errors = Append(@, ErrorAt("delete", 0, ""))]]
    /\ UNCHANGED <<ruleTable, webVars, pureVars, ActivityLogs, called, schedVars,
                   Users, Vendors, Notifications, mailbox>>

\* db.run calls back with an error: the catch of the job logs it and the
\* function ends.
CleanupDeleteFails(r) ==
    /\ runs[r].job = "cleanup" /\ runs[r].pc = "delete"
    /\ runs' = [runs EXCEPT ![r] =
                  [@ EXCEPT !.pc = "done", !.outcome = "failed", !.returned = Undefined,
                            !.errors = Append(@, ErrorAt("delete", 0, ""))]]
    /\ UNCHANGED <<ruleTable, webVars, pureVars, ActivityLogs, called, schedVars,
                   Users, Vendors, Notifications, mailbox>>

\* A mutant: the comparison takes the boundary in.
IsOldLog_Inclusive(row) == row.timestamp <= clock.t - Retention

\* WHERE timestamp < datetime('now', '-90 days')
IsOldLog(row) == row.timestamp < clock.t - Retention

KeptLog(row) == ~IsOldLog(row)

\* The DELETE runs: one statement removes the old rows; this.changes is
\* logged and the function ends.
CleanupDeleteDone(r) ==
    /\ runs[r].job = "cleanup" /\ runs[r].pc = "delete"
    /\ ActivityLogs' = SelectSeq(ActivityLogs, KeptLog)
    /\ runs' = [runs EXCEPT ![r] =
                  [@ EXCEPT !.pc = "done", !.outcome = "completed", !.returned = Undefined,
                            !.changes = Len(ActivityLogs) - Len(SelectSeq(ActivityLogs, KeptLog)),
                            !.before = ActivityLogs, !.at = clock.t]]
    /\ UNCHANGED <<ruleTable, webVars, pureVars, called, schedVars,
                   Users, Vendors, Notifications, mailbox>>

\* ------------------------------------------------------------------------
\* Entry points: the callbacks given to cron.schedule and the manual triggers
\* ------------------------------------------------------------------------
NotCalled == [by |-> "none", job |-> "none"]

Entered(r, by, job) == called' = [called EXCEPT ![r] = [by |-> by, job |-> job]]

\* () => { sendGSTReminders(); } and its two siblings: the promise is dropped.
GSTCallback(r) == StartGST(r) /\ Entered(r, "scheduler", "gst")
ComplianceCallback(r) == StartCompliance(r) /\ Entered(r, "scheduler", "compliance")
CleanupCallback(r) == StartCleanup(r) /\ Entered(r, "scheduler", "cleanup")

\* A mutant: the trigger of the GST job starts the compliance job.
triggerGSTReminders_Compliance(r) ==
    StartCompliance(r) /\ Entered(r, "manual", "gst") /\ UNCHANGED schedVars

\* The manual triggers log and return the promise of the job.
triggerGSTReminders(r) ==
    StartGST(r) /\ Entered(r, "manual", "gst") /\ UNCHANGED schedVars
triggerComplianceReminders(r) ==
    StartCompliance(r) /\ Entered(r, "manual", "compliance") /\ UNCHANGED schedVars
triggerLogCleanup(r) ==
    StartCleanup(r) /\ Entered(r, "manual", "cleanup") /\ UNCHANGED schedVars

\* A callback run by the scheduler at an instant the model does not follow.
CronGST(r) == GSTCallback(r) /\ UNCHANGED schedVars
CronCompliance(r) == ComplianceCallback(r) /\ UNCHANGED schedVars
CronCleanup(r) == CleanupCallback(r) /\ UNCHANGED schedVars

\* ------------------------------------------------------------------------
\* The tasks of initializeCronJobs
\* ------------------------------------------------------------------------
\* A field of a cron expression: '*', a number, or '*/n'.
Star == [kind |-> "any", n |-> 0]
At(n) == [kind |-> "at", n |-> n]
Every(n) == [kind |-> "every", n |-> n]

Expression(minute, hour, dom, month, dow) ==
    [minute |-> minute, hour |-> hour, dom |-> dom, month |-> month, dow |-> dow]

\* A mutant: the tasks are registered without the timezone option, so the
\* scheduler reads their expressions in the local time of the host.
RegisteredTasks_HostTimezone(nodeEnv) ==
    << [expression |-> Expression(At(0), At(8), Star, Star, Star),
        timezone |-> "local", job |-> "gst"],
       [expression |-> Expression(At(0), At(9), Star, Star, At(1)),
        timezone |-> "local", job |-> "compliance"],
       [expression |-> Expression(At(0), At(2), At(1), Star, Star),
        timezone |-> "local", job |-> "cleanup"] >>
    \o (IF nodeEnv = "development"
        THEN << [expression |-> Expression(Every(5), Star, Star, Star, Star),
                 timezone |-> "local", job |-> "test"] >>
        ELSE <<>>)

\* What initializeCronJobs registers: '0 8 * * *', '0 9 * * 1', '0 2 1 * *',
\* and with NODE_ENV=development '*/5 * * * *', all in Asia/Kolkata.
RegisteredTasks(nodeEnv) ==
    << [expression |-> Expression(At(0), At(8), Star, Star, Star),
        timezone |-> "Asia/Kolkata", job |-> "gst"],
       [expression |-> Expression(At(0), At(9), Star, Star, At(1)),
        timezone |-> "Asia/Kolkata", job |-> "compliance"],
       [expression |-> Expression(At(0), At(2), At(1), Star, Star),
        timezone |-> "Asia/Kolkata", job |-> "cleanup"] >>
    \o (IF nodeEnv = "development"
        THEN << [expression |-> Expression(Every(5), Star, Star, Star, Star),
                 timezone |-> "Asia/Kolkata", job |-> "test"] >>
        ELSE <<>>)

\* Monday 1 April 2024, 08:00 in Asia/Kolkata, on a host set to UTC; the
\* clock counts minutes from Saturday 30 March 2024, 00:00 UTC.
AnInstant == [t |-> 2 * 24 * 60 + 150, host |-> "UTC"]

\* ------------------------------------------------------------------------
\* Initial states and specifications
\* ------------------------------------------------------------------------
\* Registered vendors 1..n, each with its own user of role vendor, and one
\* admin user without a vendor profile.
UsersOf(n) ==
    [k \in 1..(n + 1) |-> [user_id |-> k, role |-> IF k <= n THEN "vendor" ELSE "admin"]]

VendorTables(n) ==
    {[k \in 1..n |-> [vendor_id |-> k, user_id |-> k,
                      turnover_range |-> t[k], compliance_status |-> c[k]]] :
        t \in [1..n -> JobTurnover], c \in [1..n -> JobStatus]}

NoArg == [turnoverRange |-> "undefined", today |-> NoDate, frequency |-> "weekly"]

\* The server after start-up: the tables as registration left them, no
\* notification yet, and one invocation of a job ahead (a scheduler tick).
Init ==
    /\ ruleTable = GST_DUE_DATES
    /\ arg = NoArg
    /\ ret = NoReturn
    /\ \E n \in 0..MaxVendors :
          /\ Users = UsersOf(n)
          /\ Vendors \in VendorTables(n)
    /\ Notifications = <<>>
    /\ mailbox = <<>>
    /\ runs = [r \in {"scheduled"} |-> IdleRun]
    /\ ActivityLogs = <<>>
    /\ called = [r \in {"scheduled"} |-> NotCalled]
    /\ clock = AnInstant
    /\ tasks = RegisteredTasks("production")
    /\ fired = {}
    /\ WebIdle

Next ==
    \E r \in DOMAIN runs :
        \/ CronGST(r)
        \/ GSTQueryFails(r)
        \/ GSTQueryReturns(r)
        \/ SendFails(r)
        \/ SendSucceeds(r)
        \/ GSTInsertFails(r)
        \/ GSTInsertSucceeds(r)
        \/ CronCompliance(r)
        \/ ComplianceQueryFails(r)
        \/ ComplianceQueryReturns(r)
        \/ ComplianceInsertFails(r)
        \/ ComplianceInsertSucceeds(r)

Spec == Init /\ [][Next]_vars

\* Direct calls of the classifier and the matcher on every input.
InitPure ==
    /\ ruleTable = GST_DUE_DATES
    /\ arg \in [turnoverRange : TurnoverInputs, today : Dates, frequency : Frequencies]
    /\ ret = NoReturn
    /\ Users = UsersOf(0)
    /\ Vendors = <<>>
    /\ Notifications = <<>>
    /\ mailbox = <<>>
    /\ runs = [r \in RunIds |-> IdleRun]
    /\ ActivityLogs = <<>>
    /\ called = [r \in RunIds |-> NotCalled]
    /\ clock = AnInstant
    /\ tasks = RegisteredTasks("production")
    /\ fired = {}
    /\ WebIdle

NextPure == CallClassify \/ CallMatch

SpecPure == InitPure /\ [][NextPure]_vars

\* ------------------------------------------------------------------------
\* The scheduler callbacks and the manual triggers side by side
\* ------------------------------------------------------------------------
SchedVendors == 1
SchedTurnover == {"<10L", ">1Cr"}

SchedVendorTables ==
    {[k \in 1..SchedVendors |-> [vendor_id |-> k, user_id |-> k,
                                 turnover_range |-> t[k], compliance_status |-> c[k]]] :
        t \in [1..SchedVendors -> SchedTurnover], c \in [1..SchedVendors -> JobStatus]}

\* Activity logs written a minute more than 90 days ago, exactly 90 days
\* ago, a minute less than 90 days ago, and today.
LogRow(k, age) == [log_id |-> k, timestamp |-> AnInstant.t - age]

LogTables ==
    { <<>>,
      <<LogRow(1, Retention), LogRow(2, Retention - 1), LogRow(3, 0)>>,
      <<LogRow(1, Retention + 1), LogRow(2, Retention), LogRow(3, Retention - 1),
        LogRow(4, 0)>> }

\* The server after start-up with one scheduler callback and one manual
\* trigger ahead; nothing keeps the two invocations apart.
InitSched ==
    /\ ruleTable = GST_DUE_DATES
    /\ arg = NoArg
    /\ ret = NoReturn
    /\ Users = UsersOf(SchedVendors)
    /\ Vendors \in SchedVendorTables
    /\ Notifications = <<>>
    /\ mailbox = <<>>
    /\ runs = [r \in RunIds |-> IdleRun]
    /\ ActivityLogs \in LogTables
    /\ called = [r \in RunIds |-> NotCalled]
    /\ clock = AnInstant
    /\ tasks = RegisteredTasks("production")
    /\ fired = {}
    /\ WebIdle

JobStep(r) ==
    \/ GSTQueryFails(r)
    \/ GSTQueryReturns(r)
    \/ SendFails(r)
    \/ SendSucceeds(r)
    \/ GSTInsertFails(r)
    \/ GSTInsertSucceeds(r)
    \/ ComplianceQueryFails(r)
    \/ ComplianceQueryReturns(r)
    \/ ComplianceInsertFails(r)
    \/ ComplianceInsertSucceeds(r)
    \/ CleanupDeleteFails(r)
    \/ CleanupDeleteDone(r)

NextSched ==
    \/ CronGST("scheduled")
    \/ CronCompliance("scheduled")
    \/ CronCleanup("scheduled")
    \/ triggerGSTReminders("manual")
    \/ triggerComplianceReminders("manual")
    \/ triggerLogCleanup("manual")
    \/ \E r \in DOMAIN runs : JobStep(r)

SpecSched == InitSched /\ [][NextSched]_vars

\* ------------------------------------------------------------------------
\* One run of the GST dispatcher whose storage and mailer always answer
\* ------------------------------------------------------------------------
LiveVendors == 2

LiveVendorTables ==
    {[k \in 1..LiveVendors |-> [vendor_id |-> k, user_id |-> k,
                                turnover_range |-> t[k], compliance_status |-> "pending"]] :
        t \in [1..LiveVendors -> JobTurnover]}

InitLive ==
    /\ ruleTable = GST_DUE_DATES
    /\ arg = NoArg
    /\ ret = NoReturn
    /\ Users = UsersOf(LiveVendors)
    /\ Vendors \in LiveVendorTables
    /\ Notifications = <<>>
    /\ mailbox = <<>>
    /\ runs = [r \in {"scheduled"} |-> IdleRun]
    /\ ActivityLogs = <<>>
    /\ called = [r \in {"scheduled"} |-> NotCalled]
    /\ clock = AnInstant
    /\ tasks = RegisteredTasks("production")
    /\ fired = {}
    /\ WebIdle

\* The callbacks of db.all, sendGSTReminder and db.run: each is called back,
\* with an error or without.
QuerySettles(r) == GSTQueryFails(r) \/ GSTQueryReturns(r)
SendSettles(r) == SendFails(r) \/ SendSucceeds(r)
InsertSettles(r) == GSTInsertFails(r) \/ GSTInsertSucceeds(r)

NextLive ==
    \E r \in DOMAIN runs :
        \/ CronGST(r)
        \/ QuerySettles(r)
        \/ SendSettles(r)
        \/ InsertSettles(r)

\* Every storage call and every send that is outstanding is answered.
SpecLive ==
    /\ InitLive /\ [][NextLive]_vars
    /\ \A r \in {"scheduled"} : /\ WF_vars(QuerySettles(r))
                                  /\ WF_vars(SendSettles(r))
                                  /\ WF_vars(InsertSettles(r))

\* ------------------------------------------------------------------------
\* The scheduler against the clock
\* ------------------------------------------------------------------------
\* Minutes a zone is ahead of UTC in the days the clock covers (30 March to
\* 9 April 2024; New York is on daylight time).
HostZones == {"UTC", "Asia/Kolkata", "America/New_York"}

UTCOffset(zone) ==
    CASE zone = "Asia/Kolkata" -> 330
      [] zone = "America/New_York" -> 0 - 240
      [] OTHER -> 0

\* The wall clock of a zone at instant t, in minutes from Saturday 30 March
\* 2024, 00:00 on that wall, and its calendar fields.
WallClock(t, zone) == t + UTCOffset(zone)

MinuteOf(w) == w % 60
HourOf(w) == (w \div 60) % 24
DayIndex(w) == w \div (24 * 60)
DayOfMonth(w) == IF DayIndex(w) <= 1 THEN 30 + DayIndex(w) ELSE DayIndex(w) - 1
MonthOf(w) == IF DayIndex(w) <= 1 THEN 3 ELSE 4
\* 0 is Sunday; day 0 of the clock is a Saturday.
DayOfWeek(w) == (DayIndex(w) + 6) % 7

FieldMatches(field, v) ==
    CASE field.kind = "any" -> TRUE
      [] field.kind = "at" -> v = field.n
      [] field.kind = "every" -> v % field.n = 0

\* The scheduler's test of an expression against a wall clock, at second 0.
CronMatches(e, w) ==
    /\ FieldMatches(e.minute, MinuteOf(w))
    /\ FieldMatches(e.hour, HourOf(w))
    /\ FieldMatches(e.dom, DayOfMonth(w))
    /\ FieldMatches(e.month, MonthOf(w))
    /\ FieldMatches(e.dow, DayOfWeek(w))

\* A task reads the clock in its timezone option, and without the option
\* in the local time of the host.
ZoneOf(task) == IF task.timezone = "local" THEN clock.host ELSE task.timezone

TaskDue(task) == CronMatches(task.expression, WallClock(clock.t, ZoneOf(task)))

DueJobs == {tasks[k].job : k \in {x \in 1..Len(tasks) : TaskDue(tasks[x])}}

NodeEnvs == {"production", "development"}

\* The clock is followed from Sunday 31 March 2024, 00:00 UTC, in steps of
\* half an hour, into Monday 8 April.
MaxTicks == 408
ClockStart == 24 * 60
ClockEnd == ClockStart + MaxTicks * 30

\* The process before the server has started listening: no task yet.
InitClock ==
    /\ ruleTable = GST_DUE_DATES
    /\ arg = NoArg
    /\ ret = NoReturn
    /\ Users = UsersOf(0)
    /\ Vendors = <<>>
    /\ Notifications = <<>>
    /\ mailbox = <<>>
    /\ runs = [r \in {"scheduled"} |-> IdleRun]
    /\ ActivityLogs = <<>>
    /\ called = [r \in {"scheduled"} |-> NotCalled]
    /\ \E host \in HostZones : clock = [t |-> ClockStart, host |-> host]
    /\ tasks = <<>>
    /\ fired = {}
    /\ WebIdle

\* initializeCronJobs: the tasks are registered and started.
initializeCronJobs ==
    /\ tasks = <<>>
    /\ \E nodeEnv \in NodeEnvs : tasks' = RegisteredTasks(nodeEnv)
    /\ UNCHANGED <<ruleTable, webVars, pureVars, jobVars, clock, fired>>

\* The callback of a task that is due at this instant runs, once.
Due(job) == job \in DueJobs /\ job \notin fired

Fires(job) == fired' = fired \cup {job} /\ UNCHANGED <<clock, tasks>>

\* new Date() at the instant of the clock: getDate() and getMonth() read it
\* in the local time of the host.
NewDate ==
    [date |-> DayOfMonth(WallClock(clock.t, clock.host)),
     month |-> MonthOf(WallClock(clock.t, clock.host)) - 1]

\* sendGSTReminders entered at the instant of the clock.
StartGSTNow(r) ==
    /\ runs[r].pc = "idle"
    /\ runs' = [runs EXCEPT ![r] = [@ EXCEPT !.job = "gst", !.pc = "query",
                                             !.today = NewDate, !.queries = @ + 1]]
    /\ UNCHANGED <<ruleTable, webVars, pureVars, ActivityLogs, Users, Vendors, Notifications, mailbox>>

DueGST(r) == Due("gst") /\ StartGSTNow(r) /\ Entered(r, "scheduler", "gst") /\ Fires("gst")
DueCompliance(r) == Due("compliance") /\ ComplianceCallback(r) /\ Fires("compliance")
DueCleanup(r) == Due("cleanup") /\ CleanupCallback(r) /\ Fires("cleanup")

\* The development-only task: its callback logs a line.
DueTest ==
    /\ Due("test")
    /\ Fires("test")
    /\ UNCHANGED <<ruleTable, webVars, pureVars, jobVars>>

\* The promise of a run that has ended is held by nobody: the callback
\* dropped it.
Forget(r) ==
    /\ runs[r].pc = "done"
    /\ runs' = [runs EXCEPT ![r] = IdleRun]
    /\ called' = [called EXCEPT ![r] = NotCalled]
    /\ UNCHANGED <<ruleTable, webVars, pureVars, schedVars, Users, Vendors, Notifications,
                   mailbox, ActivityLogs>>

\* Half an hour passes, once the callbacks due at this instant have run.
ClockTick ==
    /\ DueJobs \subseteq fired
    /\ clock.t < ClockEnd
    /\ clock' = [clock EXCEPT !.t = @ + 30]
    /\ fired' = {}
    /\ UNCHANGED <<ruleTable, webVars, pureVars, jobVars, tasks>>

NextClock ==
    \/ initializeCronJobs
    \/ ClockTick
    \/ DueTest
    \/ \E r \in DOMAIN runs :
          \/ DueGST(r)
          \/ DueCompliance(r)
          \/ DueCleanup(r)
          \/ GSTQueryFails(r)
          \/ GSTQueryReturns(r)
          \/ ComplianceQueryFails(r)
          \/ ComplianceQueryReturns(r)
          \/ CleanupDeleteFails(r)
          \/ CleanupDeleteDone(r)
          \/ Forget(r)

SpecClock == InitClock /\ [][NextClock]_vars

\* ------------------------------------------------------------------------
\* The routers behind authMiddleware, roleMiddleware and logActivity
\* ------------------------------------------------------------------------
Roles == {"admin", "ca", "vendor"}

\* What jwt.sign puts in a token at login: the user and the role.
Payload(userId, role) == [userId |-> userId, role |-> role]

\* The Authorization header of a request: absent, of another scheme, or
\* 'Bearer <token>' with a token whose signature and expiry jwt.verify
\* tests.
NoToken == [signed |-> FALSE, expired |-> FALSE, payload |-> Payload(0, "none")]

Tokens ==
    {[signed |-> sg, expired |-> ex, payload |-> Payload(u, role)] :
        sg \in BOOLEAN, ex \in BOOLEAN, u \in {1}, role \in Roles \cup {"guest"}}

Headers ==
    {[scheme |-> "none", token |-> NoToken], [scheme |-> "Basic", token |-> NoToken]}
        \cup {[scheme |-> "Bearer", token |-> t] : t \in Tokens}

NoUser == Payload(0, "none")

\* What a middleware did: called next() or answered with a status.
Passed(user) == [next |-> TRUE, status |-> 0, user |-> user]
Answered(status) == [next |-> FALSE, status |-> status, user |-> NoUser]

\* jwt.verify(token, JWT_SECRET, callback): err for a bad signature or an
\* expired token.
jwtVerifies(token) == token.signed /\ ~token.expired

authMiddleware(header) ==
    IF header.scheme # "Bearer"
    THEN Answered(401)
    ELSE IF ~jwtVerifies(header.token)
         THEN Answered(403)
         ELSE Passed(header.token.payload)

\* A mutant: any authenticated user passes.
roleMiddleware_AnyRole(allowedRoles, user) ==
    IF user = NoUser THEN Answered(401) ELSE Passed(user)

roleMiddleware(allowedRoles, user) ==
    IF user = NoUser
    THEN Answered(401)
    ELSE IF user.role \notin allowedRoles
         THEN Answered(403)
         ELSE Passed(user)

\* router.use(roleMiddleware([...])) of the three routers.
AllowedRoles(router) ==
    CASE router = "admin" -> {"admin"}
      [] router = "ca" -> {"ca"}
      [] router = "vendor" -> {"vendor"}

\* Routes of the routers, by the action name they give logActivity.
ServedRoutes ==
    {[router |-> "admin", action |-> "VIEW_ADMIN_DASHBOARD"],
     [router |-> "admin", action |-> "BROADCAST_NOTIFICATION"],
     [router |-> "ca", action |-> "VIEW_CA_DASHBOARD"],
     [router |-> "ca", action |-> "UPDATE_CASE"],
     [router |-> "vendor", action |-> "VIEW_VENDOR_DASHBOARD"],
     [router |-> "vendor", action |-> "ADD_TRANSACTION"]}

\* What a handler answers with once it runs.
HandlerStatus == {200, 400, 500}

MaxRequests == 2

\* The row of logActivity.
ActivityLog(user, action) ==
    [log_id |-> Len(ActivityLogs) + 1, timestamp |-> clock.t,
     user_id |-> user.userId, action |-> action]

\* One request to a route of a router goes down the chain authMiddleware,
\* roleMiddleware, logActivity, handler. logActivity issues its INSERT and
\* calls next() without waiting; the INSERT may fail, which is only logged.
Serve(route, header) ==
    LET authed == authMiddleware(header)
        allowed == IF authed.next
                   THEN roleMiddleware(AllowedRoles(route.router), authed.user)
                   ELSE authed
    IN  /\ Len(ActivityLogs) < MaxRequests
        /\ IF allowed.next
           THEN \E status \in HandlerStatus, inserted \in BOOLEAN :
                   /\ http' = [route |-> route, header |-> header, status |-> status,
                               user |-> allowed.user, handled |-> TRUE, logIssued |-> TRUE]
                   /\ ActivityLogs' =
                          IF inserted
                          THEN Append(ActivityLogs, ActivityLog(allowed.user, route.action))
                          ELSE ActivityLogs
           ELSE /\ http' = [route |-> route, header |-> header, status |-> allowed.status,
                            user |-> NoUser, handled |-> FALSE, logIssued |-> FALSE]
                /\ UNCHANGED ActivityLogs
        /\ UNCHANGED <<ruleTable, pureVars, schedVars, Cases, NewsUpdates,
                       Users, Vendors, Notifications, mailbox, runs, called>>

InitAuth ==
    /\ ruleTable = GST_DUE_DATES
    /\ arg = NoArg
    /\ ret = NoReturn
    /\ Users = UsersOf(0)
    /\ Vendors = <<>>
    /\ Notifications = <<>>
    /\ mailbox = <<>>
    /\ runs = [r \in {"scheduled"} |-> IdleRun]
    /\ ActivityLogs = <<>>
    /\ called = [r \in {"scheduled"} |-> NotCalled]
    /\ clock = AnInstant
    /\ tasks = RegisteredTasks("production")
    /\ fired = {}
    /\ WebIdle

NextAuth == \E route \in ServedRoutes, header \in Headers : Serve(route, header)

SpecAuth == InitAuth /\ [][NextAuth]_vars

\* ------------------------------------------------------------------------
\* POST /auth/register
\* ------------------------------------------------------------------------
Emails == {"a@example.in", "b@example.in", "c@example.in"}

\* The body of a registration: whether name, email and password are there,
\* the email, the role as sent, and whether the three business fields are
\* there.
RegisterBodies ==
    [complete : BOOLEAN, email : Emails, role : Roles \cup {"guest"},
     business : BOOLEAN, turnoverRange : {"40L-1Cr"}]

\* The storage call of the handler that calls back with an error, if any.
RegisterFailures == {"none", "select", "insertUser", "insertVendor"}

MaxUsers == 2

EmailTaken(email) == \E k \in 1..Len(Users) : Users[k].email = email

Replied(body, status) ==
    /\ http' = [route |-> "POST /auth/register", body |-> body, status |-> status]
    /\ UNCHANGED <<Users, Vendors>>

NewUser(body) == [user_id |-> Len(Users) + 1, role |-> body.role, email |-> body.email]

NewVendor(body, userId) ==
    [vendor_id |-> Len(Vendors) + 1, user_id |-> userId,
     turnover_range |-> body.turnoverRange, compliance_status |-> "pending"]

\* The handler of POST /auth/register: validation, the lookup of the email,
\* INSERT INTO Users, for a vendor INSERT INTO Vendors, then 201. An error
\* of a storage call goes to the error handler (500) from where it occurs.
Register(body, failure) ==
    /\ Len(Users) < MaxUsers
    /\ IF ~body.complete \/ body.role \notin {"vendor", "ca", "admin"}
          \/ (body.role = "vendor" /\ ~body.business)
       THEN Replied(body, 400)
       ELSE IF failure = "select"
            THEN Replied(body, 500)
            ELSE IF EmailTaken(body.email)
                 THEN Replied(body, 409)
                 ELSE IF failure = "insertUser"
                      THEN Replied(body, 500)
                      ELSE /\ Users' = Append(Users, NewUser(body))
                           /\ IF body.role # "vendor"
                              THEN /\ UNCHANGED Vendors
                                   /\ http' = [route |-> "POST /auth/register",
                                               body |-> body, status |-> 201]
                              ELSE IF failure = "insertVendor"
                                   THEN /\ UNCHANGED Vendors
                                        /\ http' = [route |-> "POST /auth/register",
                                                    body |-> body, status |-> 500]
                                   ELSE /\ Vendors' = Append(Vendors,
                                                         NewVendor(body, Len(Users) + 1))
                                        /\ http' = [route |-> "POST /auth/register",
                                                    body |-> body, status |-> 201]
    /\ UNCHANGED <<ruleTable, pureVars, schedVars, Cases, NewsUpdates,
                   Notifications, mailbox, runs, called, ActivityLogs>>

\* The database right after createTables: no user yet.
InitRegister ==
    /\ ruleTable = GST_DUE_DATES
    /\ arg = NoArg
    /\ ret = NoReturn
    /\ Users = <<>>
    /\ Vendors = <<>>
    /\ Notifications = <<>>
    /\ mailbox = <<>>
    /\ runs = [r \in {"scheduled"} |-> IdleRun]
    /\ ActivityLogs = <<>>
    /\ called = [r \in {"scheduled"} |-> NotCalled]
    /\ clock = AnInstant
    /\ tasks = RegisteredTasks("production")
    /\ fired = {}
    /\ WebIdle

NextRegister ==
    \E body \in RegisterBodies, failure \in RegisterFailures : Register(body, failure)

SpecRegister == InitRegister /\ [][NextRegister]_vars

\* ------------------------------------------------------------------------
\* Handlers that write Notifications: POST /admin/assign, POST
\* /admin/broadcast, PATCH /ca/case/:id; and POST /vendor/case, which opens
\* the cases. Each starts where the chain of Serve hands over to the
\* handler, with req.user the user of the token.
\* ------------------------------------------------------------------------
\* The order in which the accounts were registered: user_id counts all
\* users, vendor_id counts the vendors.
RegistrationOrders ==
    {<<"admin", "ca", "vendor">>, <<"vendor", "ca", "admin">>, <<"ca", "vendor", "admin">>}

UsersIn(order) == [k \in 1..Len(order) |-> [user_id |-> k, role |-> order[k]]]

VendorsIn(order) ==
    LET ids == {k \in 1..Len(order) : order[k] = "vendor"}
        nth(n) == CHOOSE k \in ids : Cardinality({x \in ids : x <= k}) = n
    IN  [n \in 1..Cardinality(ids) |->
            [vendor_id |-> n, user_id |-> nth(n), turnover_range |-> ">1Cr",
             compliance_status |-> "pending", assigned_ca_id |-> 0]]

UsersOfRole(role) == {Users[k].user_id : k \in {x \in 1..Len(Users) : Users[x].role = role}}

\* The columns of a new row: type and channel as given or by default, is_read
\* 0; by is the operation that wrote it and about the case it is about (not
\* columns).
Notification(table, userId, title, message, type, channel, by, about) ==
    [notif_id |-> Len(table) + 1, user_id |-> userId, title |-> title,
     message |-> message, type |-> type, channel |-> channel, is_read |-> FALSE,
     by |-> by, about |-> about]

Answer(route, status) == http' = [route |-> route, status |-> status]

\* Requests that write Notifications are served while the table holds
\* fewer than MaxRows rows; every vendor opens at most one case.
MaxRows == 1

\* POST /vendor/case without a file: the Vendors row of the user, a CA
\* picked at random (none if there is no CA), INSERT INTO Cases.
OpenCaseFailures == {"none", "selectVendor", "selectCA", "insert"}

OpenCase(userId, complete, failure) ==
    LET route == "POST /vendor/case"
        own == {k \in 1..Len(Vendors) : Vendors[k].user_id = userId}
    IN  /\ \A k \in 1..Len(Cases) : Cases[k].vendor_id \notin {Vendors[x].vendor_id : x \in own}
        /\ IF ~complete
           THEN Answer(route, 400) /\ UNCHANGED Cases
           ELSE IF failure = "selectVendor"
                THEN Answer(route, 500) /\ UNCHANGED Cases
                ELSE IF own = {}
                     THEN Answer(route, 404) /\ UNCHANGED Cases
                     ELSE IF failure \in {"selectCA", "insert"}
                          THEN Answer(route, 500) /\ UNCHANGED Cases
                          ELSE /\ \E ca \in (IF UsersOfRole("ca") = {} THEN {0}
                                              ELSE UsersOfRole("ca")) :
                                    Cases' = Append(Cases,
                                        [case_id |-> Len(Cases) + 1,
                                         vendor_id |-> Vendors[CHOOSE k \in own : TRUE].vendor_id,
                                         ca_id |-> ca, status |-> "open"])
                               /\ Answer(route, 201)
        /\ UNCHANGED <<ruleTable, pureVars, schedVars, NewsUpdates, Users, Vendors,
                       Notifications, mailbox, runs, called, ActivityLogs>>

\* POST /admin/assign: both ids required, the vendor and the CA looked up,
\* the assignment written, one row for the vendor's user and one for the CA.
AssignFailures == {"none", "selectVendor", "selectCA", "update", "insertVendor", "insertCA"}

AdminAssign(vendorId, caId, failure) ==
    LET route == "POST /admin/assign"
        found == {k \in 1..Len(Vendors) : Vendors[k].vendor_id = vendorId}
        v == CHOOSE k \in found : TRUE
        assigned == [Vendors EXCEPT ![v].assigned_ca_id = caId]
        first == InsertNotification(Notifications,
                    Notification(Notifications, Vendors[v].user_id, "CA Assignment",
                                 <<"You have been assigned to CA: ", caId>>,
                                 "info", "in-app", route, 0))
        second == InsertNotification(first,
                    Notification(first, caId, "New Vendor Assignment",
                                 <<"You have been assigned vendor: ", vendorId>>,
                                 "info", "in-app", route, 0))
    IN  /\ Len(Notifications) < MaxRows
        /\ IF vendorId = 0 \/ caId = 0
           THEN Answer(route, 400) /\ UNCHANGED <<Vendors, Notifications>>
           ELSE IF failure = "selectVendor"
                THEN Answer(route, 500) /\ UNCHANGED <<Vendors, Notifications>>
                ELSE IF found = {}
                     THEN Answer(route, 404) /\ UNCHANGED <<Vendors, Notifications>>
                     ELSE IF failure = "selectCA"
                          THEN Answer(route, 500) /\ UNCHANGED <<Vendors, Notifications>>
                          ELSE IF caId \notin UsersOfRole("ca")
                               THEN Answer(route, 404) /\ UNCHANGED <<Vendors, Notifications>>
                               ELSE IF failure = "update"
                                    THEN Answer(route, 500)
                                         /\ UNCHANGED <<Vendors, Notifications>>
                                    ELSE /\ Vendors' = assigned
                                         /\ CASE failure = "insertVendor" ->
                                                   Answer(route, 500) /\ UNCHANGED Notifications
                                              [] failure = "insertCA" ->
                                                   Answer(route, 500) /\ Notifications' = first
                                              [] OTHER ->
                                                   Answer(route, 200) /\ Notifications' = second
        /\ UNCHANGED <<ruleTable, pureVars, schedVars, Cases, NewsUpdates, Users,
                       mailbox, runs, called, ActivityLogs>>

\* POST /admin/broadcast: one INSERT per target user, all issued at once
\* (Promise.all); the ones in failed call back with an error.
Channels == {"in-app", "email", "whatsapp"}

RowsFrom(table, targets, failed, channel) ==
    LET RECURSIVE Go(_, _)
        Go(t, k) ==
            IF k > Len(Users) THEN t
            ELSE IF Users[k].user_id \in targets /\ Users[k].user_id \notin failed
                 THEN Go(InsertNotification(t,
                            Notification(t, Users[k].user_id, "title", <<"message">>,
                                         "info", channel, "POST /admin/broadcast", 0)),
                         k + 1)
                 ELSE Go(t, k + 1)
    IN  Go(table, 1)

AdminBroadcast(complete, targetRole, channel, selectFails, failed) ==
    LET route == "POST /admin/broadcast"
        targets == IF targetRole = "" THEN {Users[k].user_id : k \in 1..Len(Users)}
                   ELSE UsersOfRole(targetRole)
    IN  /\ Len(Notifications) < MaxRows
        /\ IF ~complete \/ channel \notin Channels
           THEN Answer(route, 400) /\ UNCHANGED Notifications
           ELSE IF selectFails
                THEN Answer(route, 500) /\ UNCHANGED Notifications
                ELSE IF targets = {}
                     THEN Answer(route, 404) /\ UNCHANGED Notifications
                     ELSE /\ failed \subseteq targets
                          /\ Notifications' = RowsFrom(Notifications, targets, failed, channel)
                          /\ Answer(route, IF failed = {} THEN 200 ELSE 500)
        /\ UNCHANGED <<ruleTable, pureVars, schedVars, Cases, NewsUpdates, Users, Vendors,
                       mailbox, runs, called, ActivityLogs>>

\* PATCH /ca/case/:id by the CA userId: the case must be the CA's; status is
\* validated and written; a comment becomes a Notification whose user_id is
\* caseInfo.vendor_id.
CaseStatuses == {"", "resolved", "closed"}
CaseFailures == {"none", "select", "update", "insert"}

UpdateCase(caseId, userId, status, comment, failure) ==
    LET route == "PATCH /ca/case/:id"
        found == {k \in 1..Len(Cases) : Cases[k].case_id = caseId /\ Cases[k].ca_id = userId}
        c == CHOOSE k \in found : TRUE
        updated == IF status = "" THEN Cases ELSE [Cases EXCEPT ![c].status = status]
    IN  /\ Len(Notifications) < MaxRows
        /\ IF status = "" /\ ~comment
           THEN Answer(route, 400) /\ UNCHANGED <<Cases, Notifications>>
           ELSE IF failure = "select"
                THEN Answer(route, 500) /\ UNCHANGED <<Cases, Notifications>>
                ELSE IF found = {}
                     THEN Answer(route, 404) /\ UNCHANGED <<Cases, Notifications>>
                     ELSE IF status \notin {"", "open", "in-progress", "resolved"}
                          THEN Answer(route, 400) /\ UNCHANGED <<Cases, Notifications>>
                          ELSE IF failure = "update"
                               THEN Answer(route, 500) /\ UNCHANGED <<Cases, Notifications>>
                               ELSE /\ Cases' = updated
                                    /\ IF ~comment
                                       THEN Answer(route, 200) /\ UNCHANGED Notifications
                                       ELSE IF failure = "insert"
                                            THEN Answer(route, 500) /\ UNCHANGED Notifications
                                            ELSE /\ Notifications' =
                                                      InsertNotification(Notifications,
                                                          Notification(Notifications,
                                                              Cases[c].vendor_id,
                                                              <<"Case Update: ", caseId>>,
                                                              <<"comment">>, "info", "in-app",
                                                              route, caseId))
                                                 /\ Answer(route, 200)
        /\ UNCHANGED <<ruleTable, pureVars, schedVars, NewsUpdates, Users, Vendors,
                       mailbox, runs, called, ActivityLogs>>

\* 11 April 2024, 08:00 in India: the day the monthly GSTR-3B is due.
AReminderDay == [t |-> 12 * 24 * 60 + 150, host |-> "UTC"]

InitNotify ==
    /\ ruleTable = GST_DUE_DATES
    /\ arg = NoArg
    /\ ret = NoReturn
    /\ \E order \in RegistrationOrders :
          /\ Users = UsersIn(order)
          /\ Vendors = VendorsIn(order)
    /\ Notifications = <<>>
    /\ mailbox = <<>>
    /\ runs = [r \in {"scheduled"} |-> IdleRun]
    /\ ActivityLogs = <<>>
    /\ called = [r \in {"scheduled"} |-> NotCalled]
    /\ clock = AReminderDay
    /\ tasks = RegisteredTasks("production")
    /\ fired = {}
    /\ WebIdle

\* The callback of the GST task on the day of the clock.
GSTCallbackNow(r) == StartGSTNow(r) /\ Entered(r, "scheduler", "gst") /\ UNCHANGED schedVars

NextNotify ==
    \/ \E u \in UsersOfRole("vendor"), complete \in BOOLEAN, f \in OpenCaseFailures :
          OpenCase(u, complete, f)
    \/ \E v \in 0..2, ca \in {0} \cup UsersOfRole("ca") \cup UsersOfRole("admin"),
          f \in AssignFailures : AdminAssign(v, ca, f)
    \/ \E complete \in BOOLEAN, role \in {"", "vendor", "guest"},
          channel \in {"email", "sms"}, selectFails \in BOOLEAN :
          \E failed \in SUBSET (IF role = "" THEN 1..Len(Users) ELSE UsersOfRole(role)) :
             AdminBroadcast(complete, role, channel, selectFails, failed)
    \/ \E id \in 1..2, u \in UsersOfRole("ca"), status \in CaseStatuses,
          comment \in BOOLEAN, f \in CaseFailures : UpdateCase(id, u, status, comment, f)
    \/ \E r \in DOMAIN runs :
          \/ GSTCallbackNow(r)
          \/ GSTQueryFails(r)
          \/ GSTQueryReturns(r)
          \/ SendFails(r)
          \/ SendSucceeds(r)
          \/ GSTInsertFails(r)
          \/ GSTInsertSucceeds(r)
          \/ CronCompliance(r)
          \/ ComplianceQueryFails(r)
          \/ ComplianceQueryReturns(r)
          \/ ComplianceInsertFails(r)
          \/ ComplianceInsertSucceeds(r)

SpecNotify == InitNotify /\ [][NextNotify]_vars

\* ------------------------------------------------------------------------
\* News: POST /ca/news, POST /admin/news, PATCH /admin/news/:id/approve, and
\* the two reads of a vendor, GET /vendor/dashboard and GET /vendor/news.
\* ------------------------------------------------------------------------
\* The answer of a news request: news is the set of update_id a read
\* returns.
NewsAnswer(route, status, news) ==
    http' = [route |-> route, status |-> status, news |-> news]

\* What a post says of its audience: one business type, every business
\* (global), or neither.
NewsBodies ==
    {[businessType |-> "retail", isGlobal |-> FALSE],
     [businessType |-> "services", isGlobal |-> FALSE],
     [businessType |-> "", isGlobal |-> TRUE],
     [businessType |-> "", isGlobal |-> FALSE]}

\* The row of INSERT INTO NewsUpdates; by is the route that wrote it (not a
\* column).
NewsUpdate(userId, businessType, isGlobal, isApproved, by) ==
    [update_id |-> Len(NewsUpdates) + 1, posted_by |-> userId,
     business_type |-> businessType, is_global |-> isGlobal, is_approved |-> isApproved,
     by |-> by]

MaxNews == 2

\* POST /ca/news: title and content required, a business type required
\* unless global; the row is inserted with is_approved 0.
PostCANews(userId, complete, businessType, isGlobal, fails) ==
    LET route == "POST /ca/news"
    IN  /\ Len(NewsUpdates) < MaxNews
        /\ IF ~complete \/ (~isGlobal /\ businessType = "")
           THEN NewsAnswer(route, 400, {}) /\ UNCHANGED NewsUpdates
           ELSE IF fails
                THEN NewsAnswer(route, 500, {}) /\ UNCHANGED NewsUpdates
                ELSE /\ NewsUpdates' = Append(NewsUpdates,
                            NewsUpdate(userId, businessType, isGlobal, FALSE, route))
                     /\ NewsAnswer(route, 201, {})
        /\ UNCHANGED <<ruleTable, pureVars, schedVars, Cases, Users, Vendors, Notifications,
                       mailbox, runs, called, ActivityLogs>>

\* POST /admin/news: title and content required; the row is inserted with
\* is_approved 1.
PostAdminNews(userId, complete, businessType, isGlobal, fails) ==
    LET route == "POST /admin/news"
    IN  /\ Len(NewsUpdates) < MaxNews
        /\ IF ~complete
           THEN NewsAnswer(route, 400, {}) /\ UNCHANGED NewsUpdates
           ELSE IF fails
                THEN NewsAnswer(route, 500, {}) /\ UNCHANGED NewsUpdates
                ELSE /\ NewsUpdates' = Append(NewsUpdates,
                            NewsUpdate(userId, businessType, isGlobal, TRUE, route))
                     /\ NewsAnswer(route, 201, {})
        /\ UNCHANGED <<ruleTable, pureVars, schedVars, Cases, Users, Vendors, Notifications,
                       mailbox, runs, called, ActivityLogs>>

\* PATCH /admin/news/:id/approve: approved must be a boolean; the UPDATE
\* sets is_approved of the row with that update_id, if there is one.
ApprovedValues == {"true", "false", "yes"}

ApproveNews(newsId, approved, fails) ==
    LET route == "PATCH /admin/news/:id/approve"
        flag == approved = "true"
    IN  /\ IF approved \notin {"true", "false"}
           THEN NewsAnswer(route, 400, {}) /\ UNCHANGED NewsUpdates
           ELSE IF fails
                THEN NewsAnswer(route, 500, {}) /\ UNCHANGED NewsUpdates
                ELSE /\ NewsUpdates' =
                          [k \in 1..Len(NewsUpdates) |->
                              IF NewsUpdates[k].update_id = newsId
                              THEN [NewsUpdates[k] EXCEPT !.is_approved = flag]
                              ELSE NewsUpdates[k]]
                     /\ NewsAnswer(route, 200, {})
        /\ UNCHANGED <<ruleTable, pureVars, schedVars, Cases, Users, Vendors, Notifications,
                       mailbox, runs, called, ActivityLogs>>

\* The WHERE clause of both reads. A mutant first: without the approval.
NewsWhere_AnyApproval(n, businessType) == n.business_type = businessType \/ n.is_global

NewsWhere(n, businessType) ==
    (n.business_type = businessType \/ n.is_global) /\ n.is_approved

\* The rows a read selects: those of the WHERE clause whose author is a
\* user (JOIN Users).
NewsFor(businessType) ==
    {NewsUpdates[k].update_id :
        k \in {x \in 1..Len(NewsUpdates) :
                  /\ NewsWhere(NewsUpdates[x], businessType)
                  /\ \E u \in 1..Len(Users) : Users[u].user_id = NewsUpdates[x].posted_by}}

\* GET /vendor/dashboard: the vendor of the user, then the news (LIMIT 10,
\* more than the table holds); its other queries do not read NewsUpdates.
ReadFailures == {"none", "selectVendor", "selectNews"}

VendorDashboard(userId, failure) ==
    LET route == "GET /vendor/dashboard"
        own == {k \in 1..Len(Vendors) : Vendors[k].user_id = userId}
    IN  /\ IF failure = "selectVendor"
           THEN NewsAnswer(route, 500, {})
           ELSE IF own = {}
                THEN NewsAnswer(route, 404, {})
                ELSE IF failure = "selectNews"
                     THEN NewsAnswer(route, 500, {})
                     ELSE NewsAnswer(route, 200,
                                     NewsFor(Vendors[CHOOSE k \in own : TRUE].business_type))
        /\ UNCHANGED <<ruleTable, pureVars, schedVars, Cases, NewsUpdates, Users, Vendors,
                       Notifications, mailbox, runs, called, ActivityLogs>>

\* GET /vendor/news?page=&limit=: the same selection, cut to one page; rows
\* of one second have no order among them, so a page is any part of the
\* selection of the page's size.
PageSize(n, page, limit) ==
    LET offset == (page - 1) * limit
        rest == IF n > offset THEN n - offset ELSE 0
    IN  IF rest < limit THEN rest ELSE limit

VendorNews(userId, page, limit, failure) ==
    LET route == "GET /vendor/news"
        own == {k \in 1..Len(Vendors) : Vendors[k].user_id = userId}
        selected == NewsFor(Vendors[CHOOSE k \in own : TRUE].business_type)
    IN  /\ IF failure = "selectVendor"
           THEN NewsAnswer(route, 500, {})
           ELSE IF own = {}
                THEN NewsAnswer(route, 404, {})
                ELSE IF failure = "selectNews"
                     THEN NewsAnswer(route, 500, {})
                     ELSE \E rows \in SUBSET selected :
                             /\ Cardinality(rows) = PageSize(Cardinality(selected), page, limit)
                             /\ NewsAnswer(route, 200, rows)
        /\ UNCHANGED <<ruleTable, pureVars, schedVars, Cases, NewsUpdates, Users, Vendors,
                       Notifications, mailbox, runs, called, ActivityLogs>>

\* One admin, one CA, a vendor of retail, and a user of role vendor
\* without a Vendors row.
InitNews ==
    /\ ruleTable = GST_DUE_DATES
    /\ arg = NoArg
    /\ ret = NoReturn
    /\ Users = UsersIn(<<"admin", "ca", "vendor", "vendor">>)
    /\ Vendors = <<[vendor_id |-> 1, user_id |-> 3, turnover_range |-> ">1Cr",
                    compliance_status |-> "pending", assigned_ca_id |-> 0,
                    business_type |-> "retail"]>>
    /\ Notifications = <<>>
    /\ mailbox = <<>>
    /\ runs = [r \in {"scheduled"} |-> IdleRun]
    /\ ActivityLogs = <<>>
    /\ called = [r \in {"scheduled"} |-> NotCalled]
    /\ clock = AnInstant
    /\ tasks = RegisteredTasks("production")
    /\ fired = {}
    /\ WebIdle

NextNews ==
    \/ \E u \in UsersOfRole("ca"), complete \in BOOLEAN, body \in NewsBodies,
          fails \in BOOLEAN :
          PostCANews(u, complete, body.businessType, body.isGlobal, fails)
    \/ \E u \in UsersOfRole("admin"), complete \in BOOLEAN, body \in NewsBodies,
          fails \in BOOLEAN :
          PostAdminNews(u, complete, body.businessType, body.isGlobal, fails)
    \/ \E id \in 1..(MaxNews + 1), approved \in ApprovedValues, fails \in BOOLEAN :
          ApproveNews(id, approved, fails)
    \/ \E u \in UsersOfRole("vendor"), f \in ReadFailures : VendorDashboard(u, f)
    \/ \E u \in UsersOfRole("vendor"), page \in 1..2, limit \in {1, 10}, f \in ReadFailures :
          VendorNews(u, page, limit, f)

SpecNews == InitNews /\ [][NextNews]_vars

\* ------------------------------------------------------------------------
\* Properties of the GST reminder dispatcher
\* ------------------------------------------------------------------------
GSTRuns == {r \in DOMAIN runs : runs[r].job = "gst"}

MailsBy(r) == {k \in 1..Len(mailbox) : mailbox[k].run = r}
DeliveredBy(r) == {k \in MailsBy(r) : mailbox[k].delivered}
AttemptsFor(r, u, d) ==
    {k \in MailsBy(r) : mailbox[k].user_id = u /\ mailbox[k].description = d}
DeliveredFor(r, u, d) == {k \in AttemptsFor(r, u, d) : mailbox[k].delivered}

RowsBy(r) == {k \in 1..Len(Notifications) : Notifications[k].by = r}
RowsFor(r, u, d) ==
    {k \in RowsBy(r) : /\ Notifications[k].user_id = u
                       /\ Notifications[k].message = <<"Reminder: ", d, " is due today">>}

ErrorsAt(r, at) == {k \in 1..Len(runs[r].errors) : runs[r].errors[k].at = at}

\* The business rule, stated on its own: the two smallest brackets file
\* quarterly (18th and 22nd of January, April, July, October), every other
\* vendor monthly (11th and 20th).
DueToday(vendor, today) ==
    IF vendor.turnover_range \in {"<10L", "10-40L"}
    THEN today.date \in {18, 22} /\ (today.month + 1) \in {1, 4, 7, 10}
    ELSE today.date \in {11, 20}

PositionOf(r, u) == CHOOSE x \in 1..Len(runs[r].vendors) : runs[r].vendors[x].user_id = u

\* Once the run has ended, it ended normally and every vendor after user u
\* in the query result that is due today had its send attempted.
LaterVendorsServed(r, u) ==
    runs[r].pc = "done" =>
        /\ runs[r].outcome = "completed"
        /\ \A x \in 1..Len(runs[r].vendors) :
              (x > PositionOf(r, u) /\ DueToday(runs[r].vendors[x], runs[r].today))
                  => \E k \in MailsBy(r) : mailbox[k].user_id = runs[r].vendors[x].user_id

\* C1: in a run of sendGSTReminders, a failed email send leaves no
\* Notification row for that send, is attempted once only, and does not keep
\* any later vendor of the query result from being matched and sent to.
C1_SendFailureIsolated ==
    \A r \in GSTRuns : \A k \in MailsBy(r) :
        ~mailbox[k].delivered =>
            /\ RowsFor(r, mailbox[k].user_id, mailbox[k].description) = {}
            /\ AttemptsFor(r, mailbox[k].user_id, mailbox[k].description) = {k}
            /\ LaterVendorsServed(r, mailbox[k].user_id)

\* A finished run whose first send failed and whose later send was delivered.
C1_Witness ==
    \E r \in GSTRuns :
        /\ runs[r].pc = "done"
        /\ \E k, l \in MailsBy(r) :
              /\ k < l
              /\ ~mailbox[k].delivered
              /\ mailbox[l].delivered
              /\ mailbox[k].user_id # mailbox[l].user_id
              /\ RowsFor(r, mailbox[l].user_id, mailbox[l].description) # {}

\* C2 as stated: a finished run hands its caller the number of rows it
\* created.
C2_ReturnsRowCount ==
    \A r \in GSTRuns :
        (runs[r].pc = "done" /\ runs[r].outcome = "completed") =>
            /\ runs[r].returned.defined
            /\ runs[r].returned.value = Cardinality(RowsBy(r))

\* C2, amended: the counter remindersSent of a run equals the number of
\* Notification rows the run created, each of them after a delivered send
\* for the same vendor and rule; the run logs that counter, and the value
\* its caller gets is undefined.
C2_CountsRowsCreated ==
    \A r \in GSTRuns :
        /\ runs[r].remindersSent = Cardinality(RowsBy(r))
        /\ \A k \in RowsBy(r) :
              \E m \in DeliveredBy(r) :
                  /\ mailbox[m].user_id = Notifications[k].user_id
                  /\ Notifications[k].message = <<"Reminder: ", mailbox[m].description, " is due today">>
        /\ runs[r].pc = "done" => ~runs[r].returned.defined

\* A finished run that created two rows and lost a third send.
C2_Witness ==
    \E r \in GSTRuns :
        /\ runs[r].pc = "done" /\ runs[r].outcome = "completed"
        /\ runs[r].remindersSent = 2
        /\ Cardinality(MailsBy(r)) = 3
        /\ ~runs[r].returned.defined

\* C3: a job whose vendor query failed has ended, has sent no email, has
\* inserted no row and has issued the query once.
C3_QueryFailureAborts ==
    \A r \in DOMAIN runs :
        ErrorsAt(r, "query") # {} =>
            /\ runs[r].job \in {"gst", "compliance"}
            /\ runs[r].pc = "done" /\ runs[r].outcome = "failed"
            /\ MailsBy(r) = {}
            /\ RowsBy(r) = {}
            /\ runs[r].queries = 1
            /\ runs[r].remindersSent = 0

\* A GST run on a date when a vendor is due, ended by its failed query.
C3_Witness ==
    \E r \in GSTRuns :
        /\ ErrorsAt(r, "query") # {}
        /\ runs[r].pc = "done"
        /\ \E k \in 1..Len(Vendors) : DueToday(Vendors[k], runs[r].today)

\* C4: a row written by sendGSTReminders has type warning and channel email,
\* belongs to a vendor of the run's query result, and follows a delivered
\* send of the same run for the same vendor and rule; a run never has more
\* rows than delivered sends.
C4_RowFollowsDeliveredSend ==
    \A r \in GSTRuns :
        /\ \A k \in RowsBy(r) :
              /\ Notifications[k].type = "warning"
              /\ Notifications[k].channel = "email"
              /\ Notifications[k].title = "GST Filing Reminder"
              /\ \E x \in 1..Len(runs[r].vendors) :
                    runs[r].vendors[x].user_id = Notifications[k].user_id
              /\ \E m \in DeliveredBy(r) :
                    /\ mailbox[m].user_id = Notifications[k].user_id
                    /\ Notifications[k].message = <<"Reminder: ", mailbox[m].description, " is due today">>
        /\ \A m \in MailsBy(r) :
              Cardinality(RowsFor(r, mailbox[m].user_id, mailbox[m].description))
                 <= Cardinality(DeliveredFor(r, mailbox[m].user_id, mailbox[m].description))
        /\ Cardinality(RowsBy(r)) <= Cardinality(DeliveredBy(r))

\* A run with a failed send, a delivered send and the row of the latter.
C4_Witness ==
    \E r \in GSTRuns :
        /\ Cardinality(RowsBy(r)) = 1
        /\ Cardinality(DeliveredBy(r)) = 1
        /\ Cardinality(MailsBy(r)) = 2

\* C5: when the insert fails after a delivered send, the email stays
\* delivered, no row exists for it, the counter does not count it, and the
\* loop goes on: the run ends normally with every later due vendor sent to.
C5_InsertFailureIsolated ==
    \A r \in GSTRuns : \A e \in ErrorsAt(r, "insert") :
        LET err == runs[r].errors[e]
        IN  /\ DeliveredFor(r, err.user_id, err.description) # {}
            /\ RowsFor(r, err.user_id, err.description) = {}
            /\ runs[r].remindersSent = Cardinality(RowsBy(r))
            /\ runs[r].remindersSent < Cardinality(DeliveredBy(r))
            /\ LaterVendorsServed(r, err.user_id)

\* A finished run whose first insert failed and whose next vendor got both
\* the email and the row.
C5_Witness ==
    \E r \in GSTRuns :
        /\ runs[r].pc = "done"
        /\ ErrorsAt(r, "insert") # {}
        /\ Cardinality(DeliveredBy(r)) = 2
        /\ runs[r].remindersSent = 1

\* The vendors of the run's query result that are due, and those not due.
DueVendors(r) ==
    {x \in 1..Len(runs[r].vendors) : DueToday(runs[r].vendors[x], runs[r].today)}

\* C6: a vendor with no rule due today gets no send, no row and no error,
\* whatever happens to the others; and a finished run over three vendors,
\* one not due, one whose send failed and one served in full, counts 1.
C6_NonMatchingVendorUntouched ==
    \A r \in GSTRuns :
        /\ \A x \in 1..Len(runs[r].vendors) :
              x \notin DueVendors(r) =>
                  LET u == runs[r].vendors[x].user_id
                  IN  /\ \A k \in MailsBy(r) : mailbox[k].user_id # u
                      /\ \A k \in RowsBy(r) : Notifications[k].user_id # u
                      /\ \A k \in 1..Len(runs[r].errors) : runs[r].errors[k].user_id # u
        /\ ( /\ runs[r].pc = "done"
             /\ Len(runs[r].vendors) = 3
             /\ Cardinality(DueVendors(r)) = 2
             /\ Cardinality(ErrorsAt(r, "send")) = 1
             /\ ErrorsAt(r, "insert") = {} )
           => /\ runs[r].remindersSent = 1
              /\ Cardinality(RowsBy(r)) = 1
              /\ Len(runs[r].errors) = 1

\* The run of three vendors: the first not due, the second's send failed,
\* the third served.
C6_Witness ==
    \E r \in GSTRuns :
        /\ runs[r].pc = "done"
        /\ Len(runs[r].vendors) = 3
        /\ DueVendors(r) = {2, 3}
        /\ Cardinality(ErrorsAt(r, "send")) = 1
        /\ ErrorsAt(r, "insert") = {}
        /\ runs[r].remindersSent = 1
        /\ ~mailbox[1].delivered

\* ------------------------------------------------------------------------
\* Properties of the classifier and the matcher
\* ------------------------------------------------------------------------
\* Nothing but the result of the call has changed.
NothingElseTouched ==
    /\ ruleTable = GST_DUE_DATES
    /\ Vendors = <<>> /\ Notifications = <<>> /\ mailbox = <<>>
    /\ ActivityLogs = <<>>
    /\ \A r \in DOMAIN runs : runs[r] = IdleRun

\* C7: getGSTFilingFrequency returns quarterly for '<10L' and '10-40L',
\* monthly for '40L-1Cr' and '>1Cr', and monthly for any other value, the
\* missing one included; it always returns, and changes nothing.
C7_ClassifierTable ==
    ret.fn = "getGSTFilingFrequency" =>
        /\ ret.frequency \in {"monthly", "quarterly"}
        /\ arg.turnoverRange \in {"<10L", "10-40L"} => ret.frequency = "quarterly"
        /\ arg.turnoverRange \in {"40L-1Cr", ">1Cr"} => ret.frequency = "monthly"
        /\ arg.turnoverRange \notin {"<10L", "10-40L", "40L-1Cr", ">1Cr"}
              => ret.frequency = "monthly"
        /\ NothingElseTouched

\* The classifier called without a turnover range.
C7_Witness ==
    /\ ret.fn = "getGSTFilingFrequency"
    /\ arg.turnoverRange = "undefined"
    /\ ret.frequency = "monthly"

\* The calendar month of a Date.
CalendarMonth(today) == today.month + 1

\* What the rule says of a date: the day is the rule's day, and the rule's
\* month is null, or an array holding the month, or the month itself.
RuleFits(rule, today) ==
    /\ rule.day = today.date
    /\ \/ rule.month.kind = "null"
       \/ /\ rule.month.kind = "array"
          /\ CalendarMonth(today) \in {rule.month.list[k] : k \in 1..Len(rule.month.list)}
       \/ /\ rule.month.kind = "value"
          /\ rule.month.value = CalendarMonth(today)

RulesUnder(frequency) ==
    IF frequency \in DOMAIN GST_DUE_DATES THEN GST_DUE_DATES[frequency] ELSE <<>>

\* C8: getMatchingDueDates returns exactly the rules under the frequency
\* that fit the date, each once, as a function of the date and the
\* frequency alone, and leaves the rule table as it was.
C8_MatcherExact ==
    ret.fn = "getMatchingDueDates" =>
        LET rules == RulesUnder(arg.frequency)
            found == {ret.matches[x] : x \in 1..Len(ret.matches)}
        IN  /\ found = {rules[k] : k \in {k \in 1..Len(rules) : RuleFits(rules[k], arg.today)}}
            /\ Len(ret.matches) = Cardinality(found)
            /\ NothingElseTouched

\* The matcher on 22 October for a quarterly filer.
C8_Witness ==
    /\ ret.fn = "getMatchingDueDates"
    /\ arg.frequency = "quarterly"
    /\ arg.today = [date |-> 22, month |-> 9]
    /\ Len(ret.matches) = 1
    /\ ret.matches[1].description = "Quarterly GST Return (GSTR-3B)"

\* C9: for the monthly frequency the matcher returns the GSTR-1 rule on
\* day 20, the GSTR-3B rule on day 11 and nothing on any other day, in
\* every month.
C9_MonthlyDays ==
    (ret.fn = "getMatchingDueDates" /\ arg.frequency = "monthly") =>
        ret.matches =
            IF arg.today.date = 20
            THEN <<[day |-> 20, month |-> MonthNull,
                    description |-> "Monthly GST Return (GSTR-1)"]>>
            ELSE IF arg.today.date = 11
            THEN <<[day |-> 11, month |-> MonthNull,
                    description |-> "Monthly GST Return (GSTR-3B)"]>>
            ELSE <<>>

\* The matcher on 11 February for a monthly filer.
C9_Witness ==
    /\ ret.fn = "getMatchingDueDates"
    /\ arg.frequency = "monthly"
    /\ arg.today = [date |-> 11, month |-> 1]
    /\ Len(ret.matches) = 1
    /\ ret.matches[1].description = "Monthly GST Return (GSTR-3B)"

\* C10: for the quarterly frequency the matcher returns a rule only in
\* months 1, 4, 7 and 10: 18 April gives the quarterly GSTR-1 rule, the
\* 18th of any month outside 1, 4, 7, 10 gives nothing.
C10_QuarterlyMonths ==
    (ret.fn = "getMatchingDueDates" /\ arg.frequency = "quarterly") =>
        /\ ret.matches # <<>> => CalendarMonth(arg.today) \in {1, 4, 7, 10}
        /\ (arg.today.date = 18 /\ CalendarMonth(arg.today) = 4) =>
              ret.matches = <<[day |-> 18, month |-> MonthArray(<<1, 4, 7, 10>>),
                               description |-> "Quarterly GST Return (GSTR-1)"]>>
        /\ (arg.today.date = 18 /\ CalendarMonth(arg.today) \notin {1, 4, 7, 10}) =>
              ret.matches = <<>>

\* The matcher on 18 April for a quarterly filer.
C10_Witness ==
    /\ ret.fn = "getMatchingDueDates"
    /\ arg.frequency = "quarterly"
    /\ arg.today = [date |-> 18, month |-> 3]
    /\ Len(ret.matches) = 1
    /\ ret.matches[1].description = "Quarterly GST Return (GSTR-1)"

\* C11: for the annual frequency the matcher returns a rule exactly on
\* day 31 of month 12, and then the GSTR-9 rule; on 31 November and on every
\* other date it returns nothing.
C11_AnnualOnly ==
    (ret.fn = "getMatchingDueDates" /\ arg.frequency = "annual") =>
        /\ ret.matches # <<>> <=> (arg.today.date = 31 /\ CalendarMonth(arg.today) = 12)
        /\ ret.matches # <<>> =>
              ret.matches = <<[day |-> 31, month |-> MonthValue(12),
                               description |-> "Annual GST Return (GSTR-9)"]>>

\* The matcher on day 31 of month 11 for the annual frequency.
C11_Witness ==
    /\ ret.fn = "getMatchingDueDates"
    /\ arg.frequency = "annual"
    /\ arg.today = [date |-> 31, month |-> 10]
    /\ ret.matches = <<>>

\* C12 as stated: some date and some frequency make the matcher return two
\* or more rules.
C12_SomeDateHasTwoRules ==
    \E today \in Dates : \E frequency \in Frequencies :
        Len(getMatchingDueDates(today, frequency)) >= 2

\* C12, amended: with the rule table of the module, the matcher returns at
\* most one rule for every date and frequency (no two rules under one
\* frequency share a day), so GSTR-1 and GSTR-3B are never due on one day.
C12_AtMostOneRule ==
    ret.fn = "getMatchingDueDates" => Len(ret.matches) <= 1

\* The matcher on 20 March for a monthly filer: GSTR-1 alone.
C12_Witness ==
    /\ ret.fn = "getMatchingDueDates"
    /\ arg.frequency = "monthly"
    /\ arg.today = [date |-> 20, month |-> 2]
    /\ Len(ret.matches) = 1
    /\ ret.matches[1].description = "Monthly GST Return (GSTR-1)"

\* ------------------------------------------------------------------------
\* Properties of the compliance reminder job
\* ------------------------------------------------------------------------
ComplianceRuns == {r \in DOMAIN runs : runs[r].job = "compliance"}

\* The user ids of the vendors whose status is pending and whose user has
\* the role vendor.
PendingUsers ==
    {Vendors[k].user_id : k \in {k \in 1..Len(Vendors) :
        /\ Vendors[k].compliance_status = "pending"
        /\ \E u \in 1..Len(Users) :
              Users[u].user_id = Vendors[k].user_id /\ Users[u].role = "vendor"}}

RowsOfUser(r, u) == {k \in RowsBy(r) : Notifications[k].user_id = u}

\* C13: a finished run of sendComplianceReminders without a failed insert
\* has written one row for each pending vendor and none for anyone else,
\* each row of type warning on the in-app channel; the job never sends mail.
C13_OneInAppRowPerPendingVendor ==
    \A r \in ComplianceRuns :
        /\ MailsBy(r) = {}
        /\ \A k \in RowsBy(r) :
              /\ Notifications[k].user_id \in PendingUsers
              /\ Notifications[k].channel = "in-app"
              /\ Notifications[k].type = "warning"
              /\ Notifications[k].title = "Compliance Status Pending"
        /\ (runs[r].pc = "done" /\ runs[r].errors = <<>>) =>
              /\ \A u \in PendingUsers : Cardinality(RowsOfUser(r, u)) = 1
              /\ Cardinality(RowsBy(r)) = Cardinality(PendingUsers)

\* A finished compliance run over a table with two pending vendors and one
\* compliant vendor.
C13_Witness ==
    \E r \in ComplianceRuns :
        /\ runs[r].pc = "done" /\ runs[r].errors = <<>>
        /\ Cardinality(PendingUsers) = 2
        /\ Len(Vendors) = 3
        /\ Cardinality(RowsBy(r)) = 2

\* C14: a failed insert of the compliance job is logged and the loop goes
\* on: the finished run ended normally, every pending vendor has either its
\* row or its logged error, and the counter is the number of pending
\* vendors less the failed inserts.
C14_ComplianceInsertFailureIsolated ==
    \A r \in ComplianceRuns :
        /\ runs[r].remindersSent = Cardinality(RowsBy(r))
        /\ ErrorsAt(r, "insert") # {} =>
              /\ \A e \in ErrorsAt(r, "insert") :
                    /\ runs[r].errors[e].user_id \in PendingUsers
                    /\ RowsOfUser(r, runs[r].errors[e].user_id) = {}
              /\ runs[r].pc = "done" =>
                    /\ runs[r].outcome = "completed"
                    /\ \A u \in PendingUsers :
                          Cardinality(RowsOfUser(r, u))
                            + Cardinality({e \in ErrorsAt(r, "insert") :
                                              runs[r].errors[e].user_id = u}) = 1
                    /\ runs[r].remindersSent =
                          Cardinality(PendingUsers) - Cardinality(ErrorsAt(r, "insert"))

\* A finished compliance run whose first insert failed and whose second
\* and third succeeded.
C14_Witness ==
    \E r \in ComplianceRuns :
        /\ runs[r].pc = "done"
        /\ Len(runs[r].vendors) = 3
        /\ Cardinality(ErrorsAt(r, "insert")) = 1
        /\ runs[r].errors[1].user_id = runs[r].vendors[1].user_id
        /\ runs[r].remindersSent = 2

\* ------------------------------------------------------------------------
\* Properties of the log retention job, the scheduler and the triggers
\* ------------------------------------------------------------------------
CleanupRuns == {r \in DOMAIN runs : runs[r].job = "cleanup"}

NinetyDays == 90 * 24 * 60

\* The rows of a table written more than 90 days before the instant t, and
\* the others, stated on their own.
OlderThan90Days(table, t) == {k \in 1..Len(table) : t - table[k].timestamp > NinetyDays}
WithinRetention(table, t) == {k \in 1..Len(table) : t - table[k].timestamp <= NinetyDays}

LogIds(table, ks) == {table[k].log_id : k \in ks}
AllLogIds(table) == LogIds(table, 1..Len(table))

\* C15: a run of cleanupOldLogs that succeeded deleted, in its one DELETE,
\* exactly the ActivityLog rows written more than 90 days before the run
\* time: those rows are gone, a row exactly 90 days old and every newer row
\* of the table are still there, the count of the statement is the number
\* of the older rows, and the run sent no mail and wrote no Notification.
C15_DeletesExactlyOlderThan90Days ==
    \A r \in CleanupRuns :
        (runs[r].pc = "done" /\ runs[r].outcome = "completed") =>
            /\ AllLogIds(ActivityLogs) \cap
                    LogIds(runs[r].before, OlderThan90Days(runs[r].before, runs[r].at)) = {}
            /\ LogIds(runs[r].before, WithinRetention(runs[r].before, runs[r].at))
                    \subseteq AllLogIds(ActivityLogs)
            /\ runs[r].changes = Cardinality(OlderThan90Days(runs[r].before, runs[r].at))
            /\ runs[r].queries = 1
            /\ MailsBy(r) = {}
            /\ RowsBy(r) = {}

\* A cleanup succeeded on a table holding a row older than 90 days and a row
\* exactly 90 days old: the first is gone, the second is kept.
C15_Witness ==
    \E r \in CleanupRuns :
        /\ runs[r].pc = "done" /\ runs[r].outcome = "completed"
        /\ runs[r].changes = 1
        /\ \E k \in 1..Len(runs[r].before) :
              runs[r].at - runs[r].before[k].timestamp = NinetyDays
        /\ \E k \in 1..Len(ActivityLogs) :
              runs[r].at - ActivityLogs[k].timestamp = NinetyDays

FailedCleanups == {r \in CleanupRuns : runs[r].outcome = "failed"}

\* C16 as stated: when the DELETE of the retention job errors, the error
\* leaves the run of the job and reaches its caller as a rejection.
C16_DeleteErrorPropagates ==
    \A r \in FailedCleanups : runs[r].rejected

\* C16: when the DELETE of the retention job errors, the run ends there with
\* the error logged once by the catch of the job, it has deleted nothing,
\* and its promise resolves with undefined: no rejection reaches the caller.
C16_DeleteErrorCaughtAndLogged ==
    \A r \in FailedCleanups :
        /\ runs[r].pc = "done"
        /\ ~runs[r].rejected
        /\ runs[r].returned = Undefined
        /\ Len(runs[r].errors) = 1
        /\ ErrorsAt(r, "delete") = {1}
        /\ runs[r].changes = 0
        /\ runs[r].queries = 1

\* The DELETE of a manually triggered cleanup has errored while old rows
\* were in the table, and they are still there.
C16_Witness ==
    \E r \in FailedCleanups :
        /\ called[r].by = "manual"
        /\ OlderThan90Days(ActivityLogs, clock.t) # {}

FailedSends(r) == MailsBy(r) \ DeliveredBy(r)

\* Every failure a run met is on its error log: one line for the failed
\* statement that ended the run, one line per failed send.
EveryFailureLogged(r) ==
    /\ Cardinality(ErrorsAt(r, "send")) = Cardinality(FailedSends(r))
    /\ runs[r].outcome = "failed" =>
          /\ runs[r].pc = "done"
          /\ Cardinality(ErrorsAt(r, "query") \cup ErrorsAt(r, "delete")) = 1
          /\ runs[r].errors[Len(runs[r].errors)].at \in {"query", "delete"}

\* A step leaves every run that has ended as it is.
EndedRunsStay ==
    \A r \in DOMAIN runs : runs[r].pc = "done" => runs'[r] = runs[r]

\* C17: whatever fails, no invocation of a job rejects or throws into the
\* scheduler callback: every failure is on the error log of its run, a run
\* issues its first statement once only, and a run that has ended, failed
\* or not, is not entered again.
C17_SchedulerNeverSeesAnError ==
    /\ [](\A r \in DOMAIN runs : /\ ~runs[r].rejected
                                 /\ runs[r].queries <= 1
                                 /\ EveryFailureLogged(r))
    /\ [][EndedRunsStay]_vars

\* A job called by the scheduler has failed at its first statement, and the
\* other invocation has ended normally after a failure for one vendor.
C17_Witness ==
    \E r, q \in DOMAIN runs :
        /\ called[r].by = "scheduler"
        /\ runs[r].outcome = "failed"
        /\ runs[q].outcome = "completed"
        /\ runs[q].errors # <<>>

\* What a run did to the outside, without the marks that tell the runs
\* apart: the mails it handed to the mailer and the rows it inserted, in
\* order.
MailsOf(r) ==
    LET own == SelectSeq(mailbox, LAMBDA m : m.run = r)
    IN  [k \in 1..Len(own) |-> [user_id |-> own[k].user_id,
                                description |-> own[k].description,
                                delivered |-> own[k].delivered]]

RowsOf(r) ==
    LET own == SelectSeq(Notifications, LAMBDA n : n.by = r)
    IN  [k \in 1..Len(own) |-> [user_id |-> own[k].user_id, title |-> own[k].title,
                                message |-> own[k].message, type |-> own[k].type,
                                channel |-> own[k].channel, is_read |-> own[k].is_read]]

DeletedBy(r) == LogIds(runs[r].before, OlderThan90Days(runs[r].before, runs[r].at))

\* The two invocations ran the same job to its end on the same date, saw
\* the same tables, and met the same failures of storage and mailer.
SameJobSameInputs(r, q) ==
    /\ runs[r].pc = "done" /\ runs[q].pc = "done"
    /\ called[r].job = called[q].job
    /\ runs[r].today = runs[q].today
    /\ runs[r].vendors = runs[q].vendors
    /\ runs[r].before = runs[q].before
    /\ runs[r].at = runs[q].at
    /\ runs[r].errors = runs[q].errors

SameEffectsAndResult(r, q) ==
    /\ MailsOf(r) = MailsOf(q)
    /\ RowsOf(r) = RowsOf(q)
    /\ DeletedBy(r) = DeletedBy(q)
    /\ runs[r].changes = runs[q].changes
    /\ runs[r].remindersSent = runs[q].remindersSent
    /\ runs[r].outcome = runs[q].outcome
    /\ runs[r].returned = runs[q].returned
    /\ runs[r].rejected = runs[q].rejected

\* C18: a manual trigger runs the job it is named after, and when a manual
\* and a scheduled invocation of the same job ran on the same date over the
\* same tables with the same failures, they sent the same mails, inserted
\* the same rows, deleted the same logs and ended with the same result.
C18_TriggerSameAsScheduled ==
    /\ \A r \in DOMAIN runs : called[r].by # "none" => runs[r].job = called[r].job
    /\ \A r, q \in DOMAIN runs :
          (called[r].by = "manual" /\ called[q].by = "scheduler" /\ SameJobSameInputs(r, q))
              => SameEffectsAndResult(r, q)

\* A manual and a scheduled run of the GST dispatcher on the same date have
\* both ended, each having delivered a mail and written its row.
C18_Witness ==
    \E r, q \in DOMAIN runs :
        /\ called[r].by = "manual" /\ called[q].by = "scheduler"
        /\ called[r].job = "gst"
        /\ SameJobSameInputs(r, q)
        /\ DeliveredBy(r) # {} /\ RowsBy(r) # {}
        /\ DeliveredBy(q) # {} /\ RowsBy(q) # {}

\* The invocations that have started and not ended: they wait for a query,
\* a send, an insert or a delete.
InProgress == {r \in DOMAIN runs : runs[r].pc \notin {"idle", "done"}}

\* C20: at most one run of a job, scheduled or manually triggered, is in
\* progress in any state: a run has ended before the next one starts.
C20_AtMostOneRunInProgress ==
    Cardinality(InProgress) <= 1

\* The calendar of India at instant t, stated on its own: India is 5 hours
\* 30 minutes ahead of UTC all year; minute 0 of the clock is Saturday 30
\* March 2024, 00:00 UTC, so day 2 in India is Monday 1 April and Mondays
\* are the days 2, 9, ...
MinutesIntoIndianDay(t) == (t + 5 * 60 + 30) % (24 * 60)
IndianDay(t) == (t + 5 * 60 + 30) \div (24 * 60)
IndianMonday(t) == IndianDay(t) % 7 = 2
IndianFirstOfMonth(t) == IndianDay(t) = 2

JobNames == {"gst", "compliance", "cleanup"}

ExpectedJobs(t) ==
    {j \in JobNames :
        \/ j = "gst" /\ MinutesIntoIndianDay(t) = 8 * 60
        \/ j = "compliance" /\ MinutesIntoIndianDay(t) = 9 * 60 /\ IndianMonday(t)
        \/ j = "cleanup" /\ MinutesIntoIndianDay(t) = 2 * 60 /\ IndianFirstOfMonth(t)}

\* The callback that has just run entered the job of its task.
FiredJobEntered ==
    \A j \in JobNames :
        (j \in fired' /\ j \notin fired) =>
            \E r \in DOMAIN runs : /\ runs[r].pc = "idle"
                                    /\ runs'[r].job = j
                                    /\ called'[r] = [by |-> "scheduler", job |-> j]

\* The clock leaves an instant only after every job expected at it was
\* invoked, once the tasks are registered.
NoExpectedJobSkipped ==
    (clock'.t # clock.t /\ tasks # <<>>) => ExpectedJobs(clock.t) \subseteq fired

\* C19: whatever the timezone of the host, the scheduler invokes a job only
\* after initializeCronJobs and only at its time on the Indian calendar (GST
\* dispatcher 08:00 every day, compliance job 09:00 on Mondays, log cleanup
\* 02:00 on the 1st), it invokes the job of the task, and once the tasks are
\* registered it misses none of these times.
C19_JobsFireOnIndianTime ==
    /\ [](fired \cap JobNames \subseteq ExpectedJobs(clock.t))
    /\ [](tasks = <<>> => fired = {})
    /\ [][FiredJobEntered]_vars
    /\ [][NoExpectedJobSkipped]_vars

\* On a host in New York, where it is still Sunday night, the compliance
\* job has been invoked at 09:00 of the Indian Monday 8 April.
C19_Witness ==
    /\ clock.host = "America/New_York"
    /\ IndianDay(clock.t) = 9
    /\ fired = {"compliance"}
    /\ \E r \in DOMAIN runs : runs[r].job = "compliance"

\* ------------------------------------------------------------------------
\* Order and repetition inside the GST dispatcher
\* ------------------------------------------------------------------------
\* The send and the insert for the vendor at position x of the query result
\* are both over: the send was attempted, and if it was delivered the row is
\* written or the failure of its INSERT is logged.
SettledAt(r, x) ==
    LET u == runs[r].vendors[x].user_id
    IN  /\ \E k \in MailsBy(r) : mailbox[k].user_id = u
        /\ \A k \in DeliveredBy(r) :
              mailbox[k].user_id = u =>
                  \/ RowsFor(r, u, mailbox[k].description) # {}
                  \/ \E e \in ErrorsAt(r, "insert") : runs[r].errors[e].user_id = u

\* The operations of a run that are started and not over, read off what the
\* run has left behind: a send while the run waits at one, and every
\* delivered mail that has neither its row nor a logged INSERT failure.
OutstandingInserts(r) ==
    {k \in DeliveredBy(r) :
        /\ RowsFor(r, mailbox[k].user_id, mailbox[k].description) = {}
        /\ ~\E e \in ErrorsAt(r, "insert") : runs[r].errors[e].user_id = mailbox[k].user_id}

Outstanding(r) ==
    Cardinality(OutstandingInserts(r)) + (IF runs[r].pc = "send" THEN 1 ELSE 0)

\* C21: in a run of sendGSTReminders at most one send or insert is
\* outstanding, the mails leave in the order of the query result, and
\* while the run is at the send or the insert of a vendor, the send and
\* insert of every earlier vendor that is due are over.
C21_VendorsOneAfterAnother ==
    \A r \in GSTRuns :
        /\ Outstanding(r) <= 1
        /\ \A k1, k2 \in MailsBy(r) :
              k1 < k2 => PositionOf(r, mailbox[k1].user_id) < PositionOf(r, mailbox[k2].user_id)
        /\ runs[r].pc \in {"send", "insert"} =>
              \A x \in 1..(runs[r].i - 1) :
                  DueToday(runs[r].vendors[x], runs[r].today) => SettledAt(r, x)

\* The run waits at the send for the third vendor of the query result after
\* a delivered and a failed send for the two before it.
C21_Witness ==
    \E r \in GSTRuns :
        /\ runs[r].pc = "send" /\ runs[r].i = 3
        /\ Cardinality(DeliveredBy(r)) = 1
        /\ Cardinality(FailedSends(r)) = 1

\* The run went through the whole query result: the loop index is past the
\* last vendor and every vendor that is due had its send attempted.
VisitedEveryVendor(r) ==
    /\ runs[r].i = Len(runs[r].vendors) + 1
    /\ \A x \in 1..Len(runs[r].vendors) :
          DueToday(runs[r].vendors[x], runs[r].today)
              => \E k \in MailsBy(r) : mailbox[k].user_id = runs[r].vendors[x].user_id

StoppedAtQueryFailure(r) ==
    /\ runs[r].outcome = "failed"
    /\ runs[r].vendors = <<>>
    /\ ErrorsAt(r, "query") = {1}
    /\ MailsBy(r) = {}

\* A run that waits for a send leaves that wait only by a step in which the
\* send is answered (its mail is in the mailbox, delivered or not).
LeavesSendOnlyWhenAnswered ==
    \A r \in DOMAIN runs :
        (runs[r].pc = "send" /\ runs'[r] # runs[r]) => Len(mailbox') = Len(mailbox) + 1

\* C23: when every storage call and every send is answered, a started run
\* of sendGSTReminders ends; it ends having gone through every vendor of the
\* query result, or at the failure of the query; and as long as a send is
\* not answered the run stays at it: no timeout moves it on.
C23_RunEndsAndNothingCancels ==
    /\ \A r \in {"scheduled"} : (runs[r].pc # "idle") ~> (runs[r].pc = "done")
    /\ [](\A r \in GSTRuns :
            runs[r].pc = "done" => (VisitedEveryVendor(r) \/ StoppedAtQueryFailure(r)))
    /\ [][LeavesSendOnlyWhenAnswered]_vars

\* A run has ended after a failed send for its first vendor and a delivered
\* one for its second.
C23_Witness ==
    \E r \in GSTRuns :
        /\ runs[r].pc = "done"
        /\ Len(runs[r].vendors) = LiveVendors
        /\ \E k1, k2 \in MailsBy(r) :
              /\ k1 < k2 /\ ~mailbox[k1].delivered /\ mailbox[k2].delivered

AnnualReminder == "Annual GST Return (GSTR-9)"

\* C26: no run of sendGSTReminders has anything to do with the annual
\* return: no vendor of a query result is classified other than monthly or
\* quarterly, no rule the run holds for a vendor is the GSTR-9 rule, and no
\* mail and no Notification row carries it, on 31 December either.
C26_AnnualReminderNeverSent ==
    /\ \A r \in GSTRuns :
          /\ \A x \in 1..Len(runs[r].vendors) :
                getGSTFilingFrequency(runs[r].vendors[x].turnover_range)
                    \in {"monthly", "quarterly"}
          /\ \A x \in 1..Len(runs[r].matchingDueDates) :
                runs[r].matchingDueDates[x].description # AnnualReminder
    /\ \A k \in 1..Len(mailbox) : mailbox[k].description # AnnualReminder
    /\ \A k \in 1..Len(Notifications) :
          Notifications[k].message # <<"Reminder: ", AnnualReminder, " is due today">>

\* A run on 31 December over a table with a vendor of an unlisted bracket
\* has ended without a mail.
C26_Witness ==
    \E r \in GSTRuns :
        /\ runs[r].pc = "done" /\ runs[r].outcome = "completed"
        /\ runs[r].today = [date |-> 31, month |-> 11]
        /\ \E x \in 1..Len(runs[r].vendors) : runs[r].vendors[x].turnover_range = "5Cr+"
        /\ MailsBy(r) = {}

MailsTo(r, u) == {k \in MailsBy(r) : mailbox[k].user_id = u}
RowsTo(r, u) == {k \in RowsBy(r) : Notifications[k].user_id = u}

\* A run of the dispatcher that ended without any failure.
CleanGSTRuns ==
    {r \in GSTRuns : runs[r].pc = "done" /\ runs[r].outcome = "completed"
                                          /\ runs[r].errors = <<>>}

\* C27: a run of sendGSTReminders that met no failure has mailed every
\* vendor due on its date once and written one row for it, whatever another
\* run on the same date has already sent; two such runs on one date leave
\* two mails and two rows per due vendor.
C27_EveryRunRepeatsTheReminders ==
    \A r \in CleanGSTRuns :
        /\ \A x \in 1..Len(runs[r].vendors) :
              LET u == runs[r].vendors[x].user_id
              IN  IF DueToday(runs[r].vendors[x], runs[r].today)
                  THEN /\ Cardinality(MailsTo(r, u)) = 1
                       /\ Cardinality(RowsTo(r, u)) = 1
                  ELSE MailsTo(r, u) = {} /\ RowsTo(r, u) = {}
        /\ \A q \in CleanGSTRuns :
              (q # r /\ runs[q].today = runs[r].today) =>
                  /\ MailsOf(q) = MailsOf(r)
                  /\ RowsOf(q) = RowsOf(r)
                  /\ Len(Notifications) >= 2 * Len(RowsOf(r))

\* The scheduled and the manual run of one date have both ended without a
\* failure, and the vendor has two mails and two rows of the same reminder.
C27_Witness ==
    \E r, q \in CleanGSTRuns :
        /\ r # q
        /\ runs[r].today = runs[q].today
        /\ \E u \in 1..SchedVendors :
              /\ Cardinality(MailsTo(r, u)) = 1 /\ Cardinality(MailsTo(q, u)) = 1
              /\ Cardinality(RowsTo(r, u)) = 1 /\ Cardinality(RowsTo(q, u)) = 1

\* The calendar date of India at instant t, as a Date would give it there:
\* day 0 of the clock is 30 March 2024, day 2 is 1 April.
IndianDate(t) ==
    IF IndianDay(t) <= 1
    THEN [date |-> 30 + IndianDay(t), month |-> 2]
    ELSE [date |-> IndianDay(t) - 1, month |-> 3]

\* C28: the run the scheduler has just started at 08:00 of the configured
\* timezone matches the due-date rules against the day and month of the
\* Indian calendar at that instant, whatever the timezone of the host.
C28_TodayIsTheIndianDate ==
    "gst" \in fired =>
        \A r \in DOMAIN runs :
            runs[r].job = "gst" => runs[r].today = IndianDate(clock.t)

\* ------------------------------------------------------------------------
\* Properties of the routers
\* ------------------------------------------------------------------------
\* The role a router is for, and the headers by what the claim says of
\* them.
RouterRole == [admin |-> "admin", ca |-> "ca", vendor |-> "vendor"]

NotBearer(header) == header.scheme \in {"none", "Basic"}
BadToken(header) ==
    header.scheme = "Bearer" /\ (~header.token.signed \/ header.token.expired)
GoodToken(header) ==
    header.scheme = "Bearer" /\ header.token.signed /\ ~header.token.expired

Rejected(status) == http.status = status /\ ~http.handled /\ ~http.logIssued

\* A step that serves a request without running its handler writes no
\* activity log.
RejectedWritesNoLog == ~http'.handled => ActivityLogs' = ActivityLogs

\* C24: the handler of a route of /admin, /ca or /vendor has run only for a
\* request with a valid Bearer token of the role of that router, and then
\* req.user is the payload of the token; without a Bearer header the answer
\* is 401, with an invalid or expired token 403, with a token of another
\* role 403, and in these cases neither the handler nor the INSERT of
\* logActivity has run.
C24_HandlerOnlyBehindTokenAndRole ==
    /\ [](http # NoExchange =>
            /\ http.handled =>
                  /\ GoodToken(http.header)
                  /\ http.header.token.payload.role = RouterRole[http.route.router]
                  /\ http.user = http.header.token.payload
            /\ NotBearer(http.header) => Rejected(401)
            /\ BadToken(http.header) => Rejected(403)
            /\ (GoodToken(http.header)
                  /\ http.header.token.payload.role # RouterRole[http.route.router])
                  => Rejected(403))
    /\ [][RejectedWritesNoLog]_vars

\* A request to a route of /admin with a valid token of a CA has been
\* answered 403 after an earlier request was served and logged.
C24_Witness ==
    /\ http # NoExchange
    /\ http.route.router = "admin"
    /\ GoodToken(http.header)
    /\ http.header.token.payload.role = "ca"
    /\ http.status = 403
    /\ Len(ActivityLogs) = 1

VendorRowsOf(userId) == {k \in 1..Len(Vendors) : Vendors[k].user_id = userId}

\* C25: after any sequence of registrations, failed ones included, every
\* user of role vendor has exactly one Vendors row and no other user has
\* one.
C25_UserAndVendorOneToOne ==
    \A k \in 1..Len(Users) :
        IF Users[k].role = "vendor"
        THEN Cardinality(VendorRowsOf(Users[k].user_id)) = 1
        ELSE VendorRowsOf(Users[k].user_id) = {}

\* ------------------------------------------------------------------------
\* Properties of the Notifications table
\* ------------------------------------------------------------------------
NotifyingRoutes == {"POST /admin/assign", "POST /admin/broadcast", "PATCH /ca/case/:id"}

WrittenBy(creators) == \A k \in 1..Len(Notifications) : Notifications[k].by \in creators

\* Every row of the table stays where it is, with every column, is_read
\* included.
RowsStay ==
    /\ Len(Notifications') >= Len(Notifications)
    /\ \A k \in 1..Len(Notifications) : Notifications'[k] = Notifications[k]

\* Only the read flag of a row may change.
RowsStayButReadFlag ==
    /\ Len(Notifications') >= Len(Notifications)
    /\ \A k \in 1..Len(Notifications) :
          [Notifications'[k] EXCEPT !.is_read = FALSE]
              = [Notifications[k] EXCEPT !.is_read = FALSE]

\* C22 as stated: Notification rows are created only by the two dispatch
\* jobs, and a row is never modified except for its read flag.
C22_OnlyJobsCreateRows == [](WrittenBy(RunIds)) /\ [][RowsStayButReadFlag]_vars

\* C22 amended: Notification rows are created by the two dispatch jobs and
\* by POST /admin/assign, POST /admin/broadcast and PATCH /ca/case/:id, and
\* by nothing else; no operation modifies or removes an existing row, its
\* read flag included; a new row is unread.
C22_JobsAndRoutesCreateRowsNeverChanged ==
    /\ [](WrittenBy(RunIds \cup NotifyingRoutes))
    /\ [](\A k \in 1..Len(Notifications) :
             /\ Notifications[k].notif_id = k
             /\ ~Notifications[k].is_read)
    /\ [][RowsStay]_vars

\* A table with a row of a route and, after it, a row of a job.
C22_Witness ==
    \E k, l \in 1..Len(Notifications) :
        /\ k < l
        /\ Notifications[k].by \in NotifyingRoutes
        /\ Notifications[l].by \in RunIds
        /\ Notifications[l].user_id = Notifications[k].user_id

\* The user the vendor of a case signs in as.
OwnerOf(caseId) ==
    LET c == CHOOSE k \in 1..Len(Cases) : Cases[k].case_id = caseId
        v == CHOOSE k \in 1..Len(Vendors) : Vendors[k].vendor_id = Cases[c].vendor_id
    IN  Vendors[v].user_id

\* C30: the Notification row of a case update with a comment is addressed
\* to the user of the vendor that owns the case.
C30_CaseUpdateAddressedToTheVendorsUser ==
    \A k \in 1..Len(Notifications) :
        Notifications[k].by = "PATCH /ca/case/:id"
            => Notifications[k].user_id = OwnerOf(Notifications[k].about)

\* ------------------------------------------------------------------------
\* Properties of the news routes
\* ------------------------------------------------------------------------
VendorReads == {"GET /vendor/dashboard", "GET /vendor/news"}

Returned == IF http # NoExchange /\ http.route \in VendorReads THEN http.news ELSE {}

ApprovedNow(id) ==
    \E k \in 1..Len(NewsUpdates) :
        NewsUpdates[k].update_id = id /\ NewsUpdates[k].is_approved

\* A post adds one row, approved exactly if it is the admin's.
PostSetsTheFlag ==
    Len(NewsUpdates') # Len(NewsUpdates) =>
        /\ Len(NewsUpdates') = Len(NewsUpdates) + 1
        /\ http'.status = 201
        /\ LET n == NewsUpdates'[Len(NewsUpdates')]
           IN  /\ n.by = http'.route
               /\ n.by = "POST /ca/news" => ~n.is_approved /\ n.posted_by \in UsersOfRole("ca")
               /\ n.by = "POST /admin/news" => n.is_approved /\ n.posted_by \in UsersOfRole("admin")
               /\ n.by \in {"POST /ca/news", "POST /admin/news"}

\* The flag of an existing row changes only by a decision of the admin
\* that was carried out, and nothing else of the row changes.
OnlyTheAdminDecides ==
    \A k \in 1..Len(NewsUpdates) :
        /\ k <= Len(NewsUpdates')
        /\ [NewsUpdates'[k] EXCEPT !.is_approved = FALSE]
              = [NewsUpdates[k] EXCEPT !.is_approved = FALSE]
        /\ NewsUpdates'[k].is_approved # NewsUpdates[k].is_approved =>
              http'.route = "PATCH /admin/news/:id/approve" /\ http'.status = 200

\* C29: a vendor's reads return only news whose approved flag is set at the
\* time of the read; a CA's post is unapproved until the admin approves
\* it, the admin's post is approved at once, and a post the admin rejects
\* is no longer returned.
C29_NewsVisibilityFollowsApproval ==
    /\ [](\A id \in Returned : ApprovedNow(id))
    /\ [][PostSetsTheFlag /\ OnlyTheAdminDecides]_vars

\* A read that returns a post of the CA, approved since, and leaves out a
\* post of the admin for the vendor's business, rejected since.
C29_Witness ==
    /\ http # NoExchange
    /\ http.route \in VendorReads
    /\ http.status = 200
    /\ \E k, l \in 1..Len(NewsUpdates) :
          /\ NewsUpdates[k].by = "POST /ca/news"
          /\ NewsUpdates[k].update_id \in http.news
          /\ NewsUpdates[l].by = "POST /admin/news"
          /\ ~NewsUpdates[l].is_approved
          /\ NewsWhere_AnyApproval(NewsUpdates[l], "retail")
          /\ NewsUpdates[l].update_id \notin http.news

====
